---- MODULE Spec2Model ----
(***************************************************************************)
(* miniprotector: backup reader (brfs) and backup writer (bwfs).           *)
(*                                                                         *)
(* The module holds one state machine per subsystem; each has its own      *)
(* variables, initial predicate, actions and specification:                *)
(*   SpecSplit  files.SplitByStreams (pure function)                       *)
(*   SpecDB     wfs.FileDB: AddFile and FileExists on the files table      *)
(*   SpecCoord  the stream coordinators: processStreams (line protocol)    *)
(*              and the stream loop of main (gRPC)                         *)
(*   SpecRaw    the line-protocol server (network.Server with              *)
(*              BackupMessageHandler) facing a peer that writes any lines  *)
(*   SpecLine   the line-protocol reader (network.Stream and               *)
(*              BackupProcessor), two streams, against that server         *)
(*   SpecGrpc   the gRPC backup streams: processStream of the reader and   *)
(*              ProcessBackupStream of the writer on the files table       *)
(*   SpecGrpcCtx  one gRPC backup stream whose context has a deadline      *)
(*   SpecPeer   the line-protocol server with either message handler,      *)
(*              facing a peer that starts a stream and writes file lines   *)
(*   SpecConc   goroutines that add files to the files table concurrently  *)
(*   SpecHist   wfs.FileDB: AddFile and UpdateFile on the files table      *)
(*   SpecChunk  chunker.ChunkFile                                          *)
(*   SpecProto  one session of the chunked backup protocol                 *)
(*   SpecStore  two sessions storing chunks in the chunk existence index   *)
(*   SpecCrc    the whole-file CRC32 combined from the chunks' CRC32s      *)
(*   SpecSend   a line-protocol client that sends with Stream.SendMessage  *)
(*   SpecGrpcBuf  one gRPC backup stream over bounded transport buffers    *)
(*   SpecCount  the one BackupStream of the writer serving two streams     *)
(*   SpecShut   network.Server: Start, Shutdown and the writer's main      *)
(*   SpecLog    Logger.Close of two processes sharing one log folder       *)
(*   SpecBatch  one BATCH message: joined by the reader, split by the      *)
(*              writer                                                     *)
(*   SpecMeta   one FILE message: SendFileMetadata and ParseFileMetadata   *)
(*   SpecDest   ParseDestination on the reader's --destination flag        *)
(*                                                                         *)
(* A line of the line protocol is a sequence of tokens: a token is one     *)
(* character (":", ",", " ", a digit, a letter) or one keyword of the      *)
(* protocol ("START_STREAM", "BATCH", ...) taken as a unit.                *)
(***************************************************************************)
EXTENDS Integers, Sequences, FiniteSets, TLC

VARIABLES
    \* ---- files.SplitByStreams --------------------------------------------
    splitFiles,     \* the argument files []FileInfo
    splitStreams,   \* the argument streams int
    splitResult,    \* result of SplitByStreams (common/files/fileinfo.go)
    splitResultV1,  \* result of the first version of SplitByStreams
    splitPc,        \* "call" before the call, "done" after it
    \* ---- wfs.FileDB -------------------------------------------------------
    dbRows,         \* table files: the set of its rows (without the id column)
    dbCall,         \* the last FileDB call and its arguments
    dbRet,          \* what the last FileDB call returned
    \* ---- stream coordinators ----------------------------------------------
    coKind,         \* "processStreams" or "main" (the gRPC reader's main)
    coStreams,      \* streams [][]FileInfo, one file list per stream
    coPc,           \* "launch" (the for loop), "wait" (wg.Wait), "done"
    coNext,         \* 0-based index of the next stream the loop looks at
    coGo,           \* per stream: "none", "running", "nil" or "err" (returned)
    coWg,           \* the sync.WaitGroup counter
    coErrors,       \* content of the buffered error channel (stream indexes)
    coResult,       \* what the coordinator reported: "none", "nil", "err",
                    \* or the message main logs
    \* ---- line protocol: the network --------------------------------------
    lnC2S,          \* per connection: lines written by the client, unread
    lnS2C,          \* per connection: lines written by the server, unread
    lnCliEnd,       \* per connection, client end: "none", "open", "closed"
    \* ---- line protocol: network.Server and BackupMessageHandler ----------
    srvPc,          \* per connection, handleConnection: "listen" (not yet
                    \* accepted), "start" (in OnConnectionStart), "loop"
                    \* (the scanner loop), "closed" (returned, conn closed)
    srvConnId,      \* per connection: the connectionID it was given (0: none)
    connectionCounter, \* Server.connectionCounter
    hStreams,       \* BackupMessageHandler.streams: connectionID -> StreamState
    hJobs,          \* BackupMessageHandler.jobs: jobId -> JobState
    srvFirst,       \* per connection: <<line>> OnConnectionStart scanned, or <<>>
    srvStart,       \* per connection: OnConnectionStart "none", "ok", "err"
    srvSent,        \* per connection: every line the server wrote, in order
    srvMsgs,        \* per connection: the messages passed to OnMessage, in order
    srvEnded,       \* per connection: number of OnConnectionEnd calls
    srvHandler,     \* which OnMessage the handler has: "batch" (BATCH:
                    \* lists of file names) or "file" (FILE: metadata)
    \* ---- line protocol: a peer that writes what it likes -----------------
    peerPc,         \* per connection: "off", "connect", "send", "done"
    peerScript,     \* per connection: the lines the peer has still to write
    \* ---- line protocol: the backup reader (brfs) -------------------------
    lnJobId,        \* ctx.Value("jobId")
    lnBatchSize,    \* config.ClientHashQueryBatchSize
    lnFiles,        \* per connection: the file names of its stream, in order
    cliPc,          \* per connection, the stream's goroutine: "off", "new",
                    \* "hello" (CreateConnection reads the connection ID),
                    \* "start" (StartStream sends), "startWait", "process"
                    \* (top of the loop of Process), "batchWait", "done"
    cliConnId,      \* per connection: Connection.id (0: none)
    cliI,           \* per connection: the loop variable i of Process
    cliStartResp,   \* per connection: <<response>> StartStream read, or <<>>
    cliReqs,        \* per connection: requests sent by Stream.SendMessage
    cliAcks,        \* per connection: responses Stream.SendMessage returned
    cliSubmitted,   \* per connection: file names submitted so far, in order
    cliErr,         \* per connection: "none", "nil" (Process returned nil),
                    \* "start failed", "processing failed"
    lnResult,       \* "none", "nil", "err" (processStreams), "panic"
    srvFatal,       \* the server process died of a concurrent map access
    \* ---- gRPC backup streams (cmd/brfs, cmd/bwfs) ------------------------
    gFiles,         \* per session: fileList of processStream
    gStop,          \* conf.StopStreamOnFileError
    gcPc,           \* per session, processStream: "off", "none" (not
                    \* launched), "open", "send" (sendFilesMetadata), "recv"
                    \* (the Recv loop), "done"
    gcI,            \* per session: files sendFilesMetadata has gone through
    gcSent,         \* per session: requests stream.Send accepted
    gcRecv,         \* per session: responses stream.Recv returned
    gcErr,          \* per session: "none", "nil", "err" (processStream's result)
    gReq,           \* per session: requests sent, not yet received
    gSendClosed,    \* per session: the client called CloseSend
    gResp,          \* per session: responses sent, not yet received
    gsPc,           \* per session, ProcessBackupStream: "none", "recv",
                    \* "decide" (handleFileRequest after FileExists), "done"
    gsCur,          \* per session: <<fileInfo>> handleFileRequest works on
    gsExists,       \* per session: what FileExists returned for it
    gsRet,          \* per session: "none", "nil", "err" (the handler's result)
    filesProcessed, \* BackupStream.filesProcessed
    clientStreamID, \* BackupStream.clientStreamID
    gAddCalls,      \* the AddFile calls made: the file and what FileExists
                    \* had returned for it
    gRaced,         \* files of which two handleFileRequest calls overlapped
    gHandled,       \* files for which handleFileRequest returned a response
    gsReqs,         \* per session: the requests stream.Recv gave the writer
    gCtx,           \* per session, streamCtx: "live" or "expired"
    \* ---- concurrent writers of the files table ---------------------------
    cwN,            \* numGoroutines
    cwPer,          \* filesPerGoroutine
    cwJ,            \* per goroutine: the loop variable j
    cwErrors,       \* the errors the goroutines collected
    cwPc,           \* "off", "run", "waited", "fatal", "verified"
    cwMissing,      \* file ids FileExists did not report after the writes
    \* ---- chunker.ChunkFile ----------------------------------------------
    ckSize,         \* the size of the file at filepath, in KiB
    ckReadErr,      \* whether os.ReadFile fails
    ckRet,          \* what ChunkFile returned: [chunks, err]
    ckPc,           \* "off", "call", "done"
    \* ---- chunked backup protocol, one session ----------------------------
    pFiles,         \* the files of the session: of each, its chunk digests
    pBatch,         \* chunks in one hash batch
    pPc,            \* state of the session, "off" when there is none
    pI,             \* the file the session is at
    pOff,           \* chunks of that file whose batches are done
    pNeed,          \* digests of the batch still to be sent as chunks
    pTries,         \* transmissions made of the chunk at the head of pNeed
    pMsg,           \* the message on its way to the receiver
    pReply,         \* the reply on its way to the sender
    pLog,           \* all messages sent, of both sides, in order
    pIndex,         \* the receiver's chunk index: digests with a ChunkRecord
    pIdx0,          \* per file: the chunk index when SEND_FILE was given
    pCommitted,     \* files whose FileRecord the receiver committed
    pOutcome,       \* per file: "none", "skipped", "ok", "crc_error", "failed"
    pMeta,          \* per file: the reply SendFileMetadata saw and its result
    \* ---- the chunk index under concurrent sessions -----------------------
    ciRecords,      \* the ChunkRecords, in the order they were stored
    csBatch,        \* per session: the digests of its hash batch
    csNeed,         \* per session: the digests it was told to send, unsent
    csPc,           \* per session: "off", "ask", "store", "done"
    \* ---- the whole-file checksum ------------------------------------------
    crData,         \* the bytes of the file; a byte is the set of its 1 bits
    crLens,         \* the lengths of its chunks, in order
    crClient,       \* the CRC32 the client computed over the whole file
    crServer,       \* the CRC32 the server combined from the chunks
    crPc,           \* "off", "read", "done"
    \* ---- the transport of a gRPC stream ----------------------------------
    gReqBuf,        \* requests the transport holds between Send and Recv
    gRespBuf,       \* responses the transport holds between Send and Recv
    \* ---- the one BackupStream serving several gRPC streams ---------------
    bsLogger,       \* s.logger: the attributes added to it with With, in order
    bsLocal,        \* per stream: the filesProcessed it read for its increment
    bsPc,           \* per stream: "off", "connect", "recv", "store", "done"
    bsHandled,      \* per stream: the file requests handled so far
    bsLogged,       \* the records logged by handleFileRequest
    \* ---- network.Server: Start and Shutdown ------------------------------
    shCtx,          \* s.ctx: "live" or "cancelled"
    shListener,     \* s.listener: "nil", "open" or "closed"
    shStartPc,      \* Start: "off", "listen", "check", "accept", "returned",
                    \* "killed"
    shStartRet,     \* what Start returned: "none", "nil"
    shMainPc,       \* main: "off", "wait", "cancel", "close", "return", "exited"
    shConn,         \* per client: "none", "dialed", "accepted", "refused"
    shHandler,      \* per client, handleConnection: "none", "scan",
                    \* "exchange", "ended", "killed", "cut"
    shAnswered,     \* per client: the responses its handler has written
    shStartLog,     \* the last line Start logged before it returned
    \* the log folder shared by the processes of one application
    lgExists,       \* the names of the files in the log folder
    lgContent,      \* per file name: its lines
    lgPc,           \* per process: where its Logger is
    lgPath,         \* per process: currentLogPath and targetLogPath of Close
    lgWritten,      \* per process: the lines it has logged
    \* one BATCH message from the reader to the writer
    btNames,        \* the file names of the client's batch
    btMessage,      \* the message on the wire
    btFilenames,    \* the names OnMessage obtains
    btPc,           \* "client", "sent", "handled"
    \* one FILE metadata message
    mdFile,         \* the FileInfo of the sender, <<>> when there is none
    mdMessage,      \* the message handed to ParseFileMetadata
    mdResult,       \* what ParseFileMetadata returned
    mdPc,           \* "client", "sent", "parsed"
    \* the --destination argument of the reader
    pdDest,         \* the destination string
    pdResult,       \* what ParseDestination returned
    pdArguments,    \* what ParseArguments returned
    pdPc            \* "flags", "parsed", "returned"

splitVars == <<splitFiles, splitStreams, splitResult, splitResultV1, splitPc>>
dbVars == <<dbRows, dbCall, dbRet>>
coVars == <<coKind, coStreams, coPc, coNext, coGo, coWg, coErrors, coResult>>

netVars == <<lnC2S, lnS2C, lnCliEnd>>
srvVars == <<srvPc, srvConnId, connectionCounter, hStreams, hJobs, srvFirst,
             srvStart, srvSent, srvMsgs, srvEnded, srvHandler>>
peerVars == <<peerPc, peerScript>>
cliVars == <<lnJobId, lnBatchSize, lnFiles, cliPc, cliConnId, cliI,
             cliStartResp, cliReqs, cliAcks, cliSubmitted, cliErr, lnResult,
             srvFatal>>
lineVars == <<netVars, srvVars, peerVars, cliVars>>

grpcVars == <<gFiles, gStop, gcPc, gcI, gcSent, gcRecv, gcErr, gReq,
              gSendClosed, gResp, gsPc, gsCur, gsExists, gsRet, filesProcessed,
              clientStreamID, gAddCalls, gRaced, gHandled, gsReqs, gCtx>>

concVars == <<cwN, cwPer, cwJ, cwErrors, cwPc, cwMissing>>

chunkVars == <<ckSize, ckReadErr, ckRet, ckPc>>

protoVars == <<pFiles, pBatch, pPc, pI, pOff, pNeed, pTries, pMsg, pReply,
              pLog, pIndex, pIdx0, pCommitted, pOutcome, pMeta>>

storeVars == <<ciRecords, csBatch, csNeed, csPc>>

crcVars == <<crData, crLens, crClient, crServer, crPc>>
bufVars == <<gReqBuf, gRespBuf>>
countVars == <<bsLogger, bsLocal, bsPc, bsHandled, bsLogged>>
shutVars == <<shCtx, shListener, shStartPc, shStartRet, shMainPc, shConn,
             shHandler, shAnswered, shStartLog>>
logVars == <<lgExists, lgContent, lgPc, lgPath, lgWritten>>
batchVars == <<btNames, btMessage, btFilenames, btPc>>
metaVars == <<mdFile, mdMessage, mdResult, mdPc>>
destVars == <<pdDest, pdResult, pdArguments, pdPc>>

vars == <<splitVars, dbVars, coVars, lineVars, grpcVars, concVars, chunkVars,
        protoVars, storeVars, crcVars, bufVars, countVars, shutVars, logVars,
        batchVars, metaVars, destVars>>

\* what the actions of one subsystem leave alone
exceptSplit == <<dbVars, coVars, lineVars, grpcVars, concVars, chunkVars,
        protoVars, storeVars, crcVars, bufVars, countVars, shutVars, logVars,
        batchVars, metaVars, destVars>>
exceptDB == <<splitVars, coVars, lineVars, grpcVars, concVars, chunkVars,
        protoVars, storeVars, crcVars, bufVars, countVars, shutVars, logVars,
        batchVars, metaVars, destVars>>
exceptCoord == <<splitVars, dbVars, lineVars, grpcVars, concVars, chunkVars,
        protoVars, storeVars, crcVars, bufVars, countVars, shutVars, logVars,
        batchVars, metaVars, destVars>>
exceptLine == <<splitVars, dbVars, coVars, grpcVars, concVars, chunkVars,
        protoVars, storeVars, crcVars, bufVars, countVars, shutVars, logVars,
        batchVars, metaVars, destVars>>
\* the gRPC writer works on the files table
exceptGrpc == <<splitVars, dbCall, dbRet, coVars, lineVars, concVars,
        chunkVars, protoVars, storeVars, crcVars, bufVars, countVars,
        shutVars, logVars, batchVars, metaVars, destVars>>

\* the BackupStream works on its own fields
exceptCount == <<splitVars, dbCall, dbRet, coVars, lineVars, concVars,
        chunkVars, protoVars, storeVars, crcVars, bufVars, shutVars, logVars,
        batchVars, metaVars, destVars>>

\* the connections of the line protocol
Conns == {1, 2}

(***************************************************************************)
(* A subsystem that takes no part in a specification rests in its idle     *)
(* state.                                                                  *)
(***************************************************************************)
SplitIdle ==
    /\ splitFiles = <<>>
    /\ splitStreams = 0
    /\ splitResult = [nil |-> TRUE, lists |-> <<>>]
    /\ splitResultV1 = [nil |-> TRUE, lists |-> <<>>]
    /\ splitPc = "idle"

DBIdle ==
    /\ dbRows = {}
    /\ dbCall = [op |-> "none"]
    /\ dbRet = [op |-> "none"]

CoordIdle ==
    /\ coKind = "idle"
    /\ coStreams = <<>>
    /\ coPc = "idle"
    /\ coNext = 0
    /\ coGo = <<>>
    /\ coWg = 0
    /\ coErrors = <<>>
    /\ coResult = "none"

LineIdle ==
    /\ lnC2S = [c \in Conns |-> <<>>]
    /\ lnS2C = [c \in Conns |-> <<>>]
    /\ lnCliEnd = [c \in Conns |-> "none"]
    /\ srvPc = [c \in Conns |-> "idle"]
    /\ srvConnId = [c \in Conns |-> 0]
    /\ connectionCounter = 0
    /\ hStreams = <<>>
    /\ hJobs = <<>>
    /\ srvFirst = [c \in Conns |-> <<>>]
    /\ srvStart = [c \in Conns |-> "none"]
    /\ srvSent = [c \in Conns |-> <<>>]
    /\ srvMsgs = [c \in Conns |-> <<>>]
    /\ srvEnded = [c \in Conns |-> 0]
    /\ srvHandler = "none"
    /\ peerPc = [c \in Conns |-> "off"]
    /\ peerScript = [c \in Conns |-> <<>>]
    /\ lnJobId = <<>>
    /\ lnBatchSize = 0
    /\ lnFiles = [c \in Conns |-> <<>>]
    /\ cliPc = [c \in Conns |-> "off"]
    /\ cliConnId = [c \in Conns |-> 0]
    /\ cliI = [c \in Conns |-> 0]
    /\ cliStartResp = [c \in Conns |-> <<>>]
    /\ cliReqs = [c \in Conns |-> <<>>]
    /\ cliAcks = [c \in Conns |-> <<>>]
    /\ cliSubmitted = [c \in Conns |-> <<>>]
    /\ cliErr = [c \in Conns |-> "none"]
    /\ lnResult = "none"
    /\ srvFatal = FALSE

GrpcIdle ==
    /\ gFiles = [s \in Conns |-> <<>>]
    /\ gStop = FALSE
    /\ gcPc = [s \in Conns |-> "off"]
    /\ gcI = [s \in Conns |-> 0]
    /\ gcSent = [s \in Conns |-> 0]
    /\ gcRecv = [s \in Conns |-> 0]
    /\ gcErr = [s \in Conns |-> "none"]
    /\ gReq = [s \in Conns |-> <<>>]
    /\ gSendClosed = [s \in Conns |-> FALSE]
    /\ gResp = [s \in Conns |-> <<>>]
    /\ gsPc = [s \in Conns |-> "none"]
    /\ gsCur = [s \in Conns |-> <<>>]
    /\ gsExists = [s \in Conns |-> FALSE]
    /\ gsRet = [s \in Conns |-> "none"]
    /\ filesProcessed = 0
    /\ clientStreamID = 0
    /\ gAddCalls = {}
    /\ gRaced = {}
    /\ gHandled = {}
    /\ gsReqs = [s \in Conns |-> <<>>]
    /\ gCtx = [s \in Conns |-> "live"]

NoMsg == [from |-> "none", type |-> "none", file |-> 0, body |-> <<>>]

ProtoIdle ==
    /\ pFiles = <<>>
    /\ pBatch = 0
    /\ pPc = "off"
    /\ pI = 0
    /\ pOff = 0
    /\ pNeed = <<>>
    /\ pTries = 0
    /\ pMsg = NoMsg
    /\ pReply = NoMsg
    /\ pLog = <<>>
    /\ pIndex = {}
    /\ pIdx0 = <<>>
    /\ pCommitted = {}
    /\ pOutcome = <<>>
    /\ pMeta = <<>>

ShutIdle ==
    /\ shCtx = "live"
    /\ shListener = "nil"
    /\ shStartPc = "off"
    /\ shStartRet = "none"
    /\ shMainPc = "off"
    /\ shConn = [c \in Conns |-> "none"]
    /\ shHandler = [c \in Conns |-> "none"]
    /\ shAnswered = [c \in Conns |-> 0]
    /\ shStartLog = "none"

\* the processes of the log folder
Pids == {1, 2}

LogIdle ==
    /\ lgExists = {}
    /\ lgContent = <<>>
    /\ lgPc = [p \in Pids |-> "none"]
    /\ lgPath = [p \in Pids |-> <<>>]
    /\ lgWritten = [p \in Pids |-> <<>>]

BatchIdle ==
    /\ btNames = <<>>
    /\ btMessage = <<>>
    /\ btFilenames = <<>>
    /\ btPc = "none"

MetaIdle ==
    /\ mdFile = <<>>
    /\ mdMessage = <<>>
    /\ mdResult = <<>>
    /\ mdPc = "none"

DestIdle ==
    /\ pdDest = <<>>
    /\ pdResult = <<>>
    /\ pdArguments = <<>>
    /\ pdPc = "none"

CountIdle ==
    /\ bsLogger = <<>>
    /\ bsLocal = [s \in Conns |-> 0]
    /\ bsPc = [s \in Conns |-> "off"]
    /\ bsHandled = [s \in Conns |-> 0]
    /\ bsLogged = {}

BufIdle ==
    /\ gReqBuf = 0
    /\ gRespBuf = 0

CrcIdle ==
    /\ crData = <<>>
    /\ crLens = <<>>
    /\ crClient = {}
    /\ crServer = {}
    /\ crPc = "off"

StoreIdle ==
    /\ ciRecords = <<>>
    /\ csBatch = [s \in Conns |-> <<>>]
    /\ csNeed = [s \in Conns |-> <<>>]
    /\ csPc = [s \in Conns |-> "off"]

ChunkIdle ==
    /\ ckSize = 0
    /\ ckReadErr = FALSE
    /\ ckRet = [chunks |-> <<>>, err |-> FALSE]
    /\ ckPc = "off"

ConcIdle ==
    /\ cwN = 0
    /\ cwPer = 0
    /\ cwJ = <<>>
    /\ cwErrors = <<>>
    /\ cwPc = "off"
    /\ cwMissing = {}

(***************************************************************************)
(* Bounds and value sets                                                   *)
(***************************************************************************)
MaxListLen == 4
MaxStreams == 4
MaxRows == 2            \* rows the files table may hold
MaxCoStreams == 3       \* streams a coordinator is asked to run
MaxCoFiles == 3         \* files in the list a coordinator splits
MaxLineLen == 5         \* tokens in the first line a peer writes

FileNames == {"a", "b"}

SeqsUpTo(S, n) == UNION {[1..k -> S] : k \in 0..n}

\* Go slice expression s[lo:hi] with 0-based bounds
Slice(s, lo, hi) == [k \in 1..(hi - lo) |-> s[lo + k]]

RECURSIVE Concat(_)
Concat(ss) == IF ss = <<>> THEN <<>> ELSE Head(ss) \o Concat(Tail(ss))

(***************************************************************************)
(* files.SplitByStreams                                                    *)
(***************************************************************************)
\* a [][]FileInfo value: the nil slice, or a slice of sublists
NilLists == [nil |-> TRUE, lists |-> <<>>]
Lists(ls) == [nil |-> FALSE, lists |-> ls]

SplitChunkSizeLast(i, streams, filesPerStream, remainder) ==
    IF i >= streams - remainder THEN filesPerStream + 1 ELSE filesPerStream

\* chunkSize := filesPerStream; if i < remainder { chunkSize++ }
SplitChunkSize(i, streams, filesPerStream, remainder) ==
    IF i < remainder THEN filesPerStream + 1 ELSE filesPerStream

\* end := start + chunkSize; if end > len(files) { end = len(files) }
SplitEnd(files, start, chunkSize) ==
    IF start + chunkSize > Len(files) THEN Len(files) ELSE start + chunkSize

\* if start < len(files) { result[i] = files[start:end] } else { make([]FileInfo, 0) }
SplitPiece(files, start, end) ==
    IF start < Len(files) THEN Slice(files, start, end) ELSE <<>>

SplitNextStartStale(start, end) == start

\* start = end
SplitNextStart(start, end) == end

\* for i := 0; i < streams; i++ { ... }
RECURSIVE SplitLoop(_, _, _, _, _)
SplitLoop(files, streams, i, start, result) ==
    IF i >= streams THEN result
    ELSE LET chunkSize == SplitChunkSize(i, streams, Len(files) \div streams,
                                         Len(files) % streams)
             end == SplitEnd(files, start, chunkSize)
         IN  SplitLoop(files, streams, i + 1, SplitNextStart(start, end),
                       Append(result, SplitPiece(files, start, end)))

SplitByStreams(files, streams) ==
    IF streams <= 0 THEN NilLists
    ELSE IF streams = 1 THEN Lists(<<files>>)
    ELSE IF Len(files) = 0 THEN Lists([i \in 1..streams |-> <<>>])
    ELSE Lists(SplitLoop(files, streams, 0, 0, <<>>))

\* the first version: no special cases, no clamping
RECURSIVE SplitLoopV1(_, _, _, _, _)
SplitLoopV1(files, streams, i, start, result) ==
    IF i >= streams THEN result
    ELSE LET chunkSize == SplitChunkSize(i, streams, Len(files) \div streams,
                                         Len(files) % streams)
             end == start + chunkSize
         IN  SplitLoopV1(files, streams, i + 1, SplitNextStart(start, end),
                         Append(result, Slice(files, start, end)))

SplitByStreamsV1(files, streams) ==
    IF streams <= 0 THEN NilLists
    ELSE Lists(SplitLoopV1(files, streams, 0, 0, <<>>))

SplitInit ==
    /\ splitFiles \in SeqsUpTo(FileNames, MaxListLen)
    /\ splitStreams \in (-1)..MaxStreams
    /\ splitResult = NilLists
    /\ splitResultV1 = NilLists
    /\ splitPc = "call"

CallSplitByStreams ==
    /\ splitPc = "call"
    /\ splitResult' = SplitByStreams(splitFiles, splitStreams)
    /\ splitResultV1' = SplitByStreamsV1(splitFiles, splitStreams)
    /\ splitPc' = "done"
    /\ UNCHANGED <<splitFiles, splitStreams>>
    /\ UNCHANGED exceptSplit

SplitNext == CallSplitByStreams

InitSplit == SplitInit /\ DBIdle /\ CoordIdle /\ LineIdle /\ GrpcIdle
        /\ ChunkIdle
        /\ ConcIdle /\ ProtoIdle /\ StoreIdle /\ CrcIdle /\ BufIdle
        /\ CountIdle /\ ShutIdle /\ LogIdle /\ BatchIdle /\ MetaIdle
        /\ DestIdle

SpecSplit == InitSplit /\ [][SplitNext]_vars

(***************************************************************************)
(* C3: for every file list L and every N > 0, SplitByStreams(L, N) returns *)
(* exactly N sublists whose concatenation in order is exactly L (disjoint, *)
(* contiguous, order-preserving); for N <= 0 it returns nil.               *)
(***************************************************************************)
SplitCovers(r) ==
    IF splitStreams > 0
    THEN /\ ~r.nil
         /\ Len(r.lists) = splitStreams
         /\ Concat(r.lists) = splitFiles
    ELSE r = NilLists

C3_SplitPartition ==
    splitPc = "done" => SplitCovers(splitResult) /\ SplitCovers(splitResultV1)

\* a list of distinct files is cut into several non-empty sublists
C3_Witness ==
    /\ splitPc = "done"
    /\ splitFiles = <<"a", "b", "a">>
    /\ splitStreams = 2
    /\ splitResult.lists = << <<"a", "b">>, <<"a">> >>

(***************************************************************************)
(* C4: for N > 0 the first (len(L) mod N) sublists have floor(len(L)/N)+1  *)
(* files and the others floor(len(L)/N); any two sizes differ by at most 1 *)
(* and no later sublist is larger than an earlier one.                     *)
(***************************************************************************)
SplitEven(r) ==
    LET n == Len(splitFiles)
        q == n \div splitStreams
        m == n % splitStreams
    IN  /\ Len(r.lists) = splitStreams
        /\ \A i \in 1..splitStreams :
              Len(r.lists[i]) = IF i <= m THEN q + 1 ELSE q
        /\ \A i, j \in 1..splitStreams :
              /\ Len(r.lists[i]) - Len(r.lists[j]) <= 1
              /\ i < j => Len(r.lists[i]) >= Len(r.lists[j])

C4_SplitEven ==
    (splitPc = "done" /\ splitStreams > 0) =>
        SplitEven(splitResult) /\ SplitEven(splitResultV1)

\* a remainder is distributed: 4 files over 3 streams gives sizes 2, 1, 1
C4_Witness ==
    /\ splitPc = "done"
    /\ Len(splitFiles) = 4
    /\ splitStreams = 3
    /\ Len(splitResult.lists[1]) = 2
    /\ Len(splitResult.lists[2]) = 1
    /\ Len(splitResult.lists[3]) = 1

(***************************************************************************)
(* wfs.FileDB: the files table of the metadata store                       *)
(***************************************************************************)
Paths == {"/p", "/q"}
Hosts == {"h1", "h2"}
ModTimes == {1, 2}
CTimes == {1, 2}
BackupTimes == {1, 2}

\* the attributes of files.FileInfo the store's queries read
FileInfos == [Path : Paths, ModTime : ModTimes, CTime : CTimes]

\* a constraint UNIQUE(source_host, backup_time), the path left out
UniqueViolationNoPath(rows, path, host, backupTime) ==
    \E r \in rows : r.source_host = host /\ r.backup_time = backupTime

\* UNIQUE(path, source_host, backup_time)
UniqueViolation(rows, path, host, backupTime) ==
    \E r \in rows :
        r.path = path /\ r.source_host = host /\ r.backup_time = backupTime

\* INSERT INTO files (backup_time, source_host, path, ..., modtime, ..., ctime, ...)
AddFile(rows, fileInfo, host, backupTime) ==
    IF UniqueViolation(rows, fileInfo.Path, host, backupTime)
    THEN [rows |-> rows, err |-> TRUE]
    ELSE [rows |-> rows \cup {[path |-> fileInfo.Path,
                               source_host |-> host,
                               modtime |-> fileInfo.ModTime,
                               ctime |-> fileInfo.CTime,
                               backup_time |-> backupTime]},
          err |-> FALSE]

FileExistsSameCTime(rows, path, host, modtime, ctime) ==
    \E r \in rows : /\ r.source_host = host /\ r.path = path
                    /\ r.modtime = modtime /\ r.ctime = ctime

\* SELECT ctime FROM files WHERE source_host = ? AND path = ? AND modtime = ?
\* sql.ErrNoRows gives false, a scanned row gives true
FileExists(rows, path, host, modtime, ctime) ==
    LET selected == {r \in rows : /\ r.source_host = host /\ r.path = path
                                  /\ r.modtime = modtime}
    IN  selected # {}

DBInit ==
    /\ dbRows = {}
    /\ dbCall = [op |-> "none"]
    /\ dbRet = [op |-> "none"]

CallAddFile ==
    \E fileInfo \in FileInfos, host \in Hosts, backupTime \in BackupTimes :
        LET res == AddFile(dbRows, fileInfo, host, backupTime)
        IN  /\ Cardinality(dbRows) < MaxRows
            /\ dbRows' = res.rows
            /\ dbCall' = [op |-> "AddFile"]
            /\ dbRet' = [op |-> "AddFile", err |-> res.err]
            /\ UNCHANGED exceptDB

CallFileExists ==
    \E path \in Paths, host \in Hosts, modtime \in ModTimes, ctime \in CTimes :
        /\ dbCall' = [op |-> "FileExists", path |-> path, host |-> host,
                      modtime |-> modtime, ctime |-> ctime]
        /\ dbRet' = [op |-> "FileExists",
                     exists |-> FileExists(dbRows, path, host, modtime, ctime),
                     err |-> FALSE]
        /\ UNCHANGED dbRows
        /\ UNCHANGED exceptDB

DBNext == CallAddFile \/ CallFileExists

InitDB == DBInit /\ SplitIdle /\ CoordIdle /\ LineIdle /\ GrpcIdle
        /\ ConcIdle /\ ChunkIdle /\ ProtoIdle /\ StoreIdle /\ CrcIdle
        /\ BufIdle /\ CountIdle /\ ShutIdle /\ LogIdle /\ BatchIdle /\ MetaIdle
        /\ DestIdle

SpecDB == InitDB /\ [][DBNext]_vars

(***************************************************************************)
(* C9: after any sequence of AddFile operations, FileExists(path, host,    *)
(* modTime, cTime) returns true if and only if some stored record has      *)
(* exactly that (path, host, modTime); the answer does not depend on       *)
(* cTime, and a record of another host, path or modTime never makes it     *)
(* true.                                                                   *)
(***************************************************************************)
C9_FileExistsExact ==
    dbCall.op = "FileExists" =>
        /\ ~dbRet.err
        /\ dbRet.exists <=>
               \E r \in dbRows : /\ r.path = dbCall.path
                                 /\ r.source_host = dbCall.host
                                 /\ r.modtime = dbCall.modtime
        /\ \A ctime \in CTimes :
               FileExists(dbRows, dbCall.path, dbCall.host, dbCall.modtime, ctime)
                   = dbRet.exists

\* the file is found although the stored change time differs from the one
\* asked about, while a record of another host is also stored
C9_Witness ==
    /\ dbCall.op = "FileExists"
    /\ dbRet.exists
    /\ \A r \in dbRows :
           (r.path = dbCall.path /\ r.source_host = dbCall.host
              /\ r.modtime = dbCall.modtime) => r.ctime # dbCall.ctime
    /\ \E r \in dbRows : r.source_host # dbCall.host

(***************************************************************************)
(* The stream coordinators                                                 *)
(*   processStreams: one goroutine per stream, errors collected in a       *)
(*   channel buffered for len(streams), decision after wg.Wait()           *)
(*   main (gRPC reader): one goroutine per non-empty stream                *)
(***************************************************************************)
AllSuccessMsg == "All streams completed successfully"
AllFailedMsg == "All streams failed"
SomeFailedMsg == "Some streams failed"

WaitGroupIgnored(wg) == TRUE

\* wg.Wait() returns when the counter is zero
WaitGroupDone(wg) == wg = 0

\* the loop launches a goroutine for the stream: processStreams always,
\* main only if len(stream) > 0
CoLaunches(kind, stream) == kind = "processStreams" \/ Len(stream) > 0

\* for err := range errors { if err != nil { return err } }; return nil
ProcessStreamsResult(errors) == IF errors # <<>> THEN "err" ELSE "nil"

\* the if / else if / else over len(streamErrorChan) at the end of main
MainResult(errors, streams) ==
    IF Len(errors) = Len(streams) THEN AllFailedMsg
    ELSE IF Len(errors) > 0 THEN SomeFailedMsg
    ELSE AllSuccessMsg

CoordInit ==
    /\ coKind \in {"processStreams", "main"}
    /\ \E n \in 0..MaxCoFiles, streams \in 1..MaxCoStreams :
          coStreams = SplitByStreams([k \in 1..n |-> "a"], streams).lists
    /\ coPc = "launch"
    /\ coNext = 0
    /\ coGo = [i \in 1..Len(coStreams) |-> "none"]
    /\ coWg = 0
    /\ coErrors = <<>>
    /\ coResult = "none"

\* one iteration of the for loop over streams: wg.Add(1); go func(...)
CoLaunch ==
    /\ coPc = "launch"
    /\ coNext < Len(coStreams)
    /\ IF CoLaunches(coKind, coStreams[coNext + 1])
       THEN /\ coWg' = coWg + 1
            /\ coGo' = [coGo EXCEPT ![coNext + 1] = "running"]
       ELSE UNCHANGED <<coWg, coGo>>
    /\ coNext' = coNext + 1
    /\ UNCHANGED <<coKind, coStreams, coPc, coErrors, coResult>>
    /\ UNCHANGED exceptCoord

\* the loop is over: the coordinator blocks in wg.Wait()
CoLoopEnd ==
    /\ coPc = "launch"
    /\ coNext = Len(coStreams)
    /\ coPc' = "wait"
    /\ UNCHANGED <<coKind, coStreams, coNext, coGo, coWg, coErrors, coResult>>
    /\ UNCHANGED exceptCoord

\* a stream goroutine ends without error: deferred wg.Done()
CoStreamSucceeds(i) ==
    /\ coGo[i] = "running"
    /\ coGo' = [coGo EXCEPT ![i] = "nil"]
    /\ coWg' = coWg - 1
    /\ UNCHANGED <<coKind, coStreams, coPc, coNext, coErrors, coResult>>
    /\ UNCHANGED exceptCoord

\* a stream goroutine ends with an error: errors <- err (blocks while the
\* buffer is full), then the deferred wg.Done()
CoStreamFails(i) ==
    /\ coGo[i] = "running"
    /\ Len(coErrors) < Len(coStreams)
    /\ coErrors' = Append(coErrors, i)
    /\ coGo' = [coGo EXCEPT ![i] = "err"]
    /\ coWg' = coWg - 1
    /\ UNCHANGED <<coKind, coStreams, coPc, coNext, coResult>>
    /\ UNCHANGED exceptCoord

\* wg.Wait() returned: close(errors) and decide
CoDecide ==
    /\ coPc = "wait"
    /\ WaitGroupDone(coWg)
    /\ coResult' = IF coKind = "processStreams"
                   THEN ProcessStreamsResult(coErrors)
                   ELSE MainResult(coErrors, coStreams)
    /\ coPc' = "done"
    /\ UNCHANGED <<coKind, coStreams, coNext, coGo, coWg, coErrors>>
    /\ UNCHANGED exceptCoord

CoordNext ==
    \/ CoLaunch
    \/ CoLoopEnd
    \/ \E i \in 1..Len(coStreams) : CoStreamSucceeds(i)
    \/ \E i \in 1..Len(coStreams) : CoStreamFails(i)
    \/ CoDecide

InitCoord == CoordInit /\ SplitIdle /\ DBIdle /\ LineIdle /\ GrpcIdle
        /\ ChunkIdle
        /\ ConcIdle /\ ProtoIdle /\ StoreIdle /\ CrcIdle /\ BufIdle
        /\ CountIdle /\ ShutIdle /\ LogIdle /\ BatchIdle /\ MetaIdle
        /\ DestIdle

SpecCoord == InitCoord /\ [][CoordNext]_vars

(***************************************************************************)
(* C5: the coordinator decides only after every launched stream session    *)
(* has finished; processStreams returns nil if and only if no stream       *)
(* goroutine reported an error, and main logs 'All streams completed       *)
(* successfully' only when no launched stream returned an error.           *)
(***************************************************************************)
CoNoError == \A i \in 1..Len(coStreams) : coGo[i] # "err"

C5_SuccessOnlyIfAllSucceed ==
    coPc = "done" =>
        /\ \A i \in 1..Len(coStreams) : coGo[i] \in {"none", "nil", "err"}
        /\ coKind = "processStreams" => (coResult = "nil" <=> CoNoError)
        /\ coKind = "main" => (coResult = AllSuccessMsg => CoNoError)

\* three sessions ran, one failed, and processStreams returned an error
C5_Witness ==
    /\ coPc = "done"
    /\ coKind = "processStreams"
    /\ Len(coStreams) = 3
    /\ Cardinality({i \in 1..3 : coGo[i] = "err"}) = 1
    /\ Cardinality({i \in 1..3 : coGo[i] = "nil"}) = 2
    /\ coResult = "err"

(***************************************************************************)
(* Strings: the functions of Go's strings and strconv packages the line    *)
(* protocol uses, on sequences of tokens                                   *)
(***************************************************************************)
RECURSIVE TrimLeft(_)
TrimLeft(s) == IF s # <<>> /\ Head(s) = " " THEN TrimLeft(Tail(s)) ELSE s

RECURSIVE TrimRight(_)
TrimRight(s) ==
    IF s # <<>> /\ s[Len(s)] = " " THEN TrimRight(SubSeq(s, 1, Len(s) - 1)) ELSE s

\* strings.TrimSpace
TrimSpace(s) == TrimRight(TrimLeft(s))

\* strings.HasPrefix
HasPrefix(s, prefix) ==
    Len(s) >= Len(prefix) /\ SubSeq(s, 1, Len(prefix)) = prefix

RECURSIVE SplitAcc(_, _, _, _)
SplitAcc(rest, sep, parts, cur) ==
    IF rest = <<>> THEN Append(parts, cur)
    ELSE IF Head(rest) = sep
         THEN SplitAcc(Tail(rest), sep, Append(parts, cur), <<>>)
         ELSE SplitAcc(Tail(rest), sep, parts, Append(cur, Head(rest)))

\* strings.Split(s, sep) for a one-character separator
Split(s, sep) == SplitAcc(s, sep, <<>>, <<>>)

RECURSIVE Join(_, _)
\* strings.Join
Join(elems, sep) ==
    IF elems = <<>> THEN <<>>
    ELSE IF Len(elems) = 1 THEN elems[1]
    ELSE elems[1] \o <<sep>> \o Join(Tail(elems), sep)

DigitTokens == <<"0", "1", "2", "3", "4", "5", "6", "7", "8", "9">>
IsDigit(t) == \E d \in 1..10 : DigitTokens[d] = t
DigitVal(t) == (CHOOSE d \in 1..10 : DigitTokens[d] = t) - 1

RECURSIVE DigitsVal(_)
DigitsVal(s) ==
    IF s = <<>> THEN 0
    ELSE DigitsVal(SubSeq(s, 1, Len(s) - 1)) * 10 + DigitVal(s[Len(s)])

\* strconv.Atoi: an optional sign and at least one digit
Atoi(s) ==
    LET signed == s # <<>> /\ Head(s) \in {"+", "-"}
        body == IF signed THEN Tail(s) ELSE s
        ok == body # <<>> /\ \A k \in 1..Len(body) : IsDigit(body[k])
    IN  [err |-> ~ok,
         val |-> IF ~ok THEN 0
                 ELSE IF signed /\ Head(s) = "-" THEN 0 - DigitsVal(body)
                 ELSE DigitsVal(body)]

RECURSIVE Itoa(_)
\* the %d verb of fmt.Sprintf
Itoa(n) ==
    IF n < 0 THEN <<"-">> \o Itoa(0 - n)
    ELSE IF n < 10 THEN <<DigitTokens[n + 1]>>
    ELSE Itoa(n \div 10) \o <<DigitTokens[(n % 10) + 1]>>

\* Go maps
MapPut(m, k, v) == [x \in (DOMAIN m) \cup {k} |-> IF x = k THEN v ELSE m[x]]
MapDelete(m, k) == [x \in (DOMAIN m) \ {k} |-> m[x]]

(***************************************************************************)
(* BackupMessageHandler (bwfs/server.go, bwfs/stream.go)                   *)
(***************************************************************************)
StartStreamPrefix == <<"START_STREAM", ":">>
StartStreamOk == <<"START_STREAM_OK">>
ErrNeedStartStream == <<"ERROR", ":", "NEED_START_STREAM">>
ErrInvalidFormat == <<"ERROR", ":", " invalid START_STREAM format">>
ErrEmptyIds == <<"ERROR", ":", " jobId and streamId cannot be empty">>
BatchPrefix == <<"BATCH", ":">>
BatchOk == <<"BATCH_OK">>
CloseLine == <<"CLOSE">>

\* if len(parts) != 3 { ... invalid START_STREAM format }
StartPartsOk(parts) == Len(parts) = 3

StartIdsOkAnyJob(iobId, atoi) == ~atoi.err

\* if iobId == "" || err != nil { ... cannot be empty }
StartIdsOk(iobId, atoi) == ~(iobId = <<>> \/ atoi.err)

\* h.jobs[iobId] is created on first use, then ActiveStreams++
JobsStarted(jobs, iobId) ==
    LET present == IF iobId \in DOMAIN jobs THEN jobs
                   ELSE MapPut(jobs, iobId, [JobID |-> iobId, ActiveStreams |-> 0,
                                             FilesProcessed |-> 0])
    IN  MapPut(present, iobId,
               [present[iobId] EXCEPT !.ActiveStreams = @ + 1])

\* what OnConnectionStart returns, wrote, and left in the handler's maps
StartResult(err, written, streams, jobs) ==
    [err |-> err, written |-> written, streams |-> streams, jobs |-> jobs]

\* an OnConnectionStart that stores the stream and counts it for its job
\* before it checks the ids
OnConnectionStartEarly(streams, jobs, connectionID, scan) ==
    IF ~scan.ok THEN StartResult(TRUE, <<>>, streams, jobs)
    ELSE
    LET message == TrimSpace(scan.text) IN
    IF ~HasPrefix(message, StartStreamPrefix)
    THEN StartResult(TRUE, <<ErrNeedStartStream>>, streams, jobs)
    ELSE
    LET parts == Split(message, ":") IN
    IF ~StartPartsOk(parts)
    THEN StartResult(TRUE, <<ErrInvalidFormat>>, streams, jobs)
    ELSE
    LET iobId == parts[2]
        atoi == Atoi(parts[3])
        stored == MapPut(streams, connectionID,
                         [iobId |-> iobId, streamId |-> atoi.val])
        counted == JobsStarted(jobs, iobId)
    IN
    IF ~StartIdsOk(iobId, atoi)
    THEN StartResult(TRUE, <<ErrEmptyIds>>, stored, counted)
    ELSE StartResult(FALSE, <<StartStreamOk>>, stored, counted)

\* scan: [ok |-> scanner.Scan(), text |-> scanner.Text()]
OnConnectionStart(streams, jobs, connectionID, scan) ==
    IF ~scan.ok THEN StartResult(TRUE, <<>>, streams, jobs)
    ELSE
    LET message == TrimSpace(scan.text) IN
    IF ~HasPrefix(message, StartStreamPrefix)
    THEN StartResult(TRUE, <<ErrNeedStartStream>>, streams, jobs)
    ELSE
    LET parts == Split(message, ":") IN
    IF ~StartPartsOk(parts)
    THEN StartResult(TRUE, <<ErrInvalidFormat>>, streams, jobs)
    ELSE
    LET iobId == parts[2]
        atoi == Atoi(parts[3])
    IN
    IF ~StartIdsOk(iobId, atoi)
    THEN StartResult(TRUE, <<ErrEmptyIds>>, streams, jobs)
    ELSE StartResult(FALSE, <<StartStreamOk>>,
                     MapPut(streams, connectionID,
                            [iobId |-> iobId, streamId |-> atoi.val]),
                     JobsStarted(jobs, iobId))

\* OnMessage: BATCH_OK for a BATCH: message, no response for any other
OnMessage(streams, connectionID, message) ==
    IF HasPrefix(message, BatchPrefix)
    THEN [response |-> BatchOk, err |-> FALSE]
    ELSE [response |-> <<>>, err |-> FALSE]

FilePrefix == <<"FILE", ":">>

RECURSIVE SplitNAcc(_, _, _, _, _)
SplitNAcc(rest, sep, n, parts, cur) ==
    IF rest = <<>> THEN Append(parts, cur)
    ELSE IF Head(rest) = sep /\ Len(parts) < n - 1
         THEN SplitNAcc(Tail(rest), sep, n, Append(parts, cur), <<>>)
         ELSE SplitNAcc(Tail(rest), sep, n, parts, Append(cur, Head(rest)))

\* a split that does not stop at n parts
SplitNUnlimited(s, sep, n) == Split(s, sep)

\* strings.SplitN(s, sep, n), n > 0: at most n parts, the last one holds
\* the unsplit rest
SplitN(s, sep, n) == SplitNAcc(s, sep, n, <<>>, <<>>)

\* strconv.ParseInt(s, 10, 64), for values far from the 64-bit limits
ParseInt(s) == Atoi(s)

\* strconv.ParseUint(s, 10, 32), for values far from the 32-bit limit:
\* digits only, no sign
ParseUint(s) ==
    LET ok == s # <<>> /\ \A k \in 1..Len(s) : IsDigit(s[k])
    IN  [err |-> ~ok, val |-> IF ok THEN DigitsVal(s) ELSE 0]

\* the number of fields protocol.ParseFileMetadata splits the payload into
FileFields == 9

\* protocol.ParseFileMetadata: FILE:<type>;<size>;<mode>;<owner>;<group>;
\* <modtime>;<accesstime>;<changetime>;<path>
ParseFileMetadata(message) ==
    LET failed == [err |-> TRUE, file |-> <<>>] IN
    IF ~HasPrefix(message, FilePrefix) THEN failed
    ELSE
    LET payload == SubSeq(message, Len(FilePrefix) + 1, Len(message)) IN
    IF Len(payload) = 0 THEN failed
    ELSE
    LET parts == SplitN(payload, ";", FileFields) IN
    IF Len(parts) # FileFields THEN failed
    ELSE IF Len(parts[1]) # 1 THEN failed
    ELSE IF \/ ParseInt(parts[2]).err \/ ParseUint(parts[3]).err
            \/ ParseUint(parts[4]).err \/ ParseUint(parts[5]).err
            \/ ParseInt(parts[6]).err \/ ParseInt(parts[7]).err
            \/ ParseInt(parts[8]).err
    THEN failed
    ELSE [err |-> FALSE,
          file |-> [FileType |-> parts[1][1],
                    Size |-> ParseInt(parts[2]).val,
                    Mode |-> ParseUint(parts[3]).val,
                    Owner |-> ParseUint(parts[4]).val,
                    Group |-> ParseUint(parts[5]).val,
                    ModTime |-> ParseInt(parts[6]).val,
                    AccessTime |-> ParseInt(parts[7]).val,
                    ChangeTime |-> ParseInt(parts[8]).val,
                    Path |-> parts[9]]]

\* OnMessage of the handler for FILE: messages: the metadata is parsed and
\* logged, a parse error is returned, and no message gets a response
OnMessageFile(streams, connectionID, message) ==
    IF HasPrefix(message, FilePrefix)
    THEN [response |-> <<>>, err |-> ParseFileMetadata(message).err]
    ELSE [response |-> <<>>, err |-> FALSE]

\* s.handler.OnMessage(connectionID, message)
HandlerOnMessage(kind, streams, connectionID, message) ==
    IF kind = "file" THEN OnMessageFile(streams, connectionID, message)
    ELSE OnMessage(streams, connectionID, message)

\* OnConnectionEnd: delete(h.streams, connectionID)
OnConnectionEnd(streams, connectionID) == MapDelete(streams, connectionID)

(***************************************************************************)
(* network.Server: handleConnection, one goroutine per accepted connection *)
(***************************************************************************)
\* a write on the connection; lines written to a closed peer are lost
SrvWrite(c, lines) ==
    /\ srvSent' = [srvSent EXCEPT ![c] = @ \o lines]
    /\ lnS2C' = IF lnCliEnd[c] = "closed" THEN lnS2C
                ELSE [lnS2C EXCEPT ![c] = @ \o lines]

\* Accept, go handleConnection: connection ID, CONNECTION_ID line
SrvAccept(c) ==
    /\ srvPc[c] = "listen"
    /\ lnCliEnd[c] # "none"
    /\ connectionCounter' = connectionCounter + 1
    /\ srvConnId' = [srvConnId EXCEPT ![c] = connectionCounter + 1]
    /\ SrvWrite(c, << <<"CONNECTION_ID", ":">> \o Itoa(connectionCounter + 1) >>)
    /\ srvPc' = [srvPc EXCEPT ![c] = "start"]
    /\ UNCHANGED <<lnC2S, lnCliEnd, hStreams, hJobs, srvFirst, srvStart,
                   srvMsgs, srvEnded, srvHandler, peerVars, cliVars>>
    /\ UNCHANGED exceptLine

\* scanner.Scan() returns when a line has arrived or the peer has closed
ScanReady(c) == lnC2S[c] # <<>> \/ lnCliEnd[c] = "closed"
ScanOf(c) == IF lnC2S[c] # <<>> THEN [ok |-> TRUE, text |-> Head(lnC2S[c])]
             ELSE [ok |-> FALSE, text |-> <<>>]

\* handler.OnConnectionStart; on error handleConnection returns (conn.Close)
SrvStart(c) ==
    /\ srvPc[c] = "start"
    /\ ScanReady(c)
    /\ LET scan == ScanOf(c)
           res == OnConnectionStart(hStreams, hJobs, srvConnId[c], scan)
       IN  /\ lnC2S' = [lnC2S EXCEPT ![c] = IF scan.ok THEN Tail(@) ELSE @]
           /\ srvFirst' = [srvFirst EXCEPT
                              ![c] = IF scan.ok THEN <<scan.text>> ELSE @]
           /\ hStreams' = res.streams
           /\ hJobs' = res.jobs
           /\ SrvWrite(c, res.written)
           /\ srvStart' = [srvStart EXCEPT ![c] = IF res.err THEN "err" ELSE "ok"]
           /\ srvPc' = [srvPc EXCEPT ![c] = IF res.err THEN "closed" ELSE "loop"]
    /\ UNCHANGED <<lnCliEnd, srvConnId, connectionCounter, srvMsgs, srvEnded,
                   srvHandler, peerVars, cliVars>>
    /\ UNCHANGED exceptLine

\* one turn of "for scanner.Scan()": a message goes to OnMessage and its
\* response, if not empty, is written
SrvMessage(c) ==
    /\ srvPc[c] = "loop"
    /\ lnC2S[c] # <<>>
    /\ TrimSpace(Head(lnC2S[c])) # CloseLine
    /\ LET message == TrimSpace(Head(lnC2S[c]))
           res == HandlerOnMessage(srvHandler, hStreams, srvConnId[c], message)
       IN  /\ lnC2S' = [lnC2S EXCEPT ![c] = Tail(@)]
           /\ srvMsgs' = [srvMsgs EXCEPT ![c] = Append(@, message)]
           /\ IF res.err
              THEN /\ srvPc' = [srvPc EXCEPT ![c] = "closed"]
                   /\ UNCHANGED <<srvSent, lnS2C>>
              ELSE /\ srvPc' = srvPc
                   /\ SrvWrite(c, IF res.response # <<>>
                                  THEN <<res.response>> ELSE <<>>)
    /\ UNCHANGED <<lnCliEnd, srvConnId, connectionCounter, hStreams, hJobs,
                   srvFirst, srvStart, srvEnded, srvHandler, peerVars, cliVars>>
    /\ UNCHANGED exceptLine

\* the loop ends on a CLOSE line or when Scan() fails (peer closed):
\* OnConnectionEnd, then handleConnection returns (conn.Close)
SrvLoopEnd(c) ==
    /\ srvPc[c] = "loop"
    /\ \/ lnC2S[c] # <<>> /\ TrimSpace(Head(lnC2S[c])) = CloseLine
       \/ lnC2S[c] = <<>> /\ lnCliEnd[c] = "closed"
    /\ lnC2S' = [lnC2S EXCEPT ![c] = IF @ # <<>> THEN Tail(@) ELSE @]
    /\ hStreams' = OnConnectionEnd(hStreams, srvConnId[c])
    /\ srvEnded' = [srvEnded EXCEPT ![c] = @ + 1]
    /\ srvPc' = [srvPc EXCEPT ![c] = "closed"]
    /\ UNCHANGED <<lnS2C, lnCliEnd, srvConnId, connectionCounter, hJobs,
                   srvFirst, srvStart, srvSent, srvMsgs, srvHandler, peerVars,
                   cliVars>>
    /\ UNCHANGED exceptLine

(***************************************************************************)
(* A peer of the server that writes the lines of a script and closes       *)
(***************************************************************************)
PeerConnect(c) ==
    /\ peerPc[c] = "connect"
    /\ lnCliEnd' = [lnCliEnd EXCEPT ![c] = "open"]
    /\ peerPc' = [peerPc EXCEPT ![c] = "send"]
    /\ UNCHANGED <<lnC2S, lnS2C, srvVars, peerScript, cliVars>>
    /\ UNCHANGED exceptLine

\* lines written after the server closed the connection are lost
PeerSend(c) ==
    /\ peerPc[c] = "send"
    /\ peerScript[c] # <<>>
    /\ lnC2S' = IF srvPc[c] = "closed" THEN lnC2S
                ELSE [lnC2S EXCEPT ![c] = Append(@, Head(peerScript[c]))]
    /\ peerScript' = [peerScript EXCEPT ![c] = Tail(@)]
    /\ UNCHANGED <<lnS2C, lnCliEnd, srvVars, peerPc, cliVars>>
    /\ UNCHANGED exceptLine

PeerClose(c) ==
    /\ peerPc[c] = "send"
    /\ peerScript[c] = <<>>
    /\ lnCliEnd' = [lnCliEnd EXCEPT ![c] = "closed"]
    /\ peerPc' = [peerPc EXCEPT ![c] = "done"]
    /\ UNCHANGED <<lnC2S, lnS2C, srvVars, peerScript, cliVars>>
    /\ UNCHANGED exceptLine

ServerNext(c) == SrvAccept(c) \/ SrvStart(c) \/ SrvMessage(c) \/ SrvLoopEnd(c)
PeerNext(c) == PeerConnect(c) \/ PeerSend(c) \/ PeerClose(c)

\* no backup reader runs
ClientOff ==
    /\ lnJobId = <<>>
    /\ lnBatchSize = 0
    /\ lnFiles = [c \in Conns |-> <<>>]
    /\ cliPc = [c \in Conns |-> "off"]
    /\ cliConnId = [c \in Conns |-> 0]
    /\ cliI = [c \in Conns |-> 0]
    /\ cliStartResp = [c \in Conns |-> <<>>]
    /\ cliReqs = [c \in Conns |-> <<>>]
    /\ cliAcks = [c \in Conns |-> <<>>]
    /\ cliSubmitted = [c \in Conns |-> <<>>]
    /\ cliErr = [c \in Conns |-> "none"]
    /\ lnResult = "none"

\* the server as NewServer and NewBackupMessageHandler leave it
ServerStart ==
    /\ lnC2S = [c \in Conns |-> <<>>]
    /\ lnS2C = [c \in Conns |-> <<>>]
    /\ lnCliEnd = [c \in Conns |-> "none"]
    /\ srvPc = [c \in Conns |-> "listen"]
    /\ srvConnId = [c \in Conns |-> 0]
    /\ connectionCounter = 0
    /\ hStreams = <<>>
    /\ hJobs = <<>>
    /\ srvFirst = [c \in Conns |-> <<>>]
    /\ srvStart = [c \in Conns |-> "none"]
    /\ srvSent = [c \in Conns |-> <<>>]
    /\ srvMsgs = [c \in Conns |-> <<>>]
    /\ srvEnded = [c \in Conns |-> 0]
    /\ srvFatal = FALSE

\* the server whose handler has the OnMessage of bwfs/stream.go
ServerInit ==
    /\ ServerStart
    /\ srvHandler = "batch"

(***************************************************************************)
(* SpecRaw: one peer writes any first line of up to MaxLineLen tokens,     *)
(* then a BATCH line, and closes; or closes without writing                *)
(***************************************************************************)
LineTokens == {"START_STREAM", ":", "j", "1", "-", " "}
FirstLines == SeqsUpTo(LineTokens, MaxLineLen)
BatchLineA == <<"BATCH", ":", "a">>

RawInit ==
    /\ ServerInit
    /\ peerPc = [c \in Conns |-> IF c = 1 THEN "connect" ELSE "off"]
    /\ \E script \in {<<>>} \cup {<<first, BatchLineA>> : first \in FirstLines} :
          peerScript = [c \in Conns |-> IF c = 1 THEN script ELSE <<>>]
    /\ ClientOff

RawNext == \E c \in Conns : ServerNext(c) \/ PeerNext(c)

InitRaw == RawInit /\ SplitIdle /\ DBIdle /\ CoordIdle /\ GrpcIdle
        /\ ConcIdle /\ ChunkIdle /\ ProtoIdle /\ StoreIdle /\ CrcIdle
        /\ BufIdle /\ CountIdle /\ ShutIdle /\ LogIdle /\ BatchIdle /\ MetaIdle
        /\ DestIdle

SpecRaw == InitRaw /\ [][RawNext]_vars

(***************************************************************************)
(* C1: OnConnectionStart sends START_STREAM_OK and records a StreamState   *)
(* only when the first line (surrounding white space trimmed, as the       *)
(* server trims every line) is START_STREAM:<jobId>:<streamId> with a      *)
(* non-empty jobId and an integer streamId; for any other first line it    *)
(* sends an ERROR line and returns an error, and handleConnection closes   *)
(* the connection without ever passing a message to OnMessage.             *)
(***************************************************************************)
IsIntegerLiteral(s) ==
    LET body == IF s # <<>> /\ Head(s) \in {"+", "-"} THEN Tail(s) ELSE s
    IN  /\ body # <<>>
        /\ \A k \in 1..Len(body) :
              body[k] \in {"0", "1", "2", "3", "4", "5", "6", "7", "8", "9"}

\* m is START_STREAM:<jobId>:<streamId> with its second colon at position k
StartStreamAt(m, k) ==
    /\ k \in 4..(Len(m) - 1)
    /\ m[1] = "START_STREAM"
    /\ m[2] = ":"
    /\ m[k] = ":"
    /\ \A x \in 3..Len(m) : x # k => m[x] # ":"
    /\ IsIntegerLiteral(SubSeq(m, k + 1, Len(m)))

IsStartStream(m) == \E k \in 1..Len(m) : StartStreamAt(m, k)

C1_After(c) ==
    LET m == TrimSpace(srvFirst[c][1]) IN
    /\ StartStreamOk \in {srvSent[c][k] : k \in 1..Len(srvSent[c])}
          => srvStart[c] = "ok"
    /\ srvMsgs[c] # <<>> => srvStart[c] = "ok"
    /\ srvConnId[c] \in DOMAIN hStreams => srvStart[c] = "ok"
    /\ srvStart[c] = "ok" =>
          /\ srvFirst[c] # <<>>
          /\ IsStartStream(m)
          /\ Len(srvSent[c]) >= 2 /\ srvSent[c][2] = StartStreamOk
          /\ srvPc[c] = "loop" =>
                /\ srvConnId[c] \in DOMAIN hStreams
                /\ \E k \in 1..Len(m) :
                      /\ StartStreamAt(m, k)
                      /\ hStreams[srvConnId[c]].iobId = SubSeq(m, 3, k - 1)
    /\ (srvStart[c] = "err" /\ srvFirst[c] # <<>>) =>
          /\ ~IsStartStream(m)
          /\ Len(srvSent[c]) = 2 /\ Head(srvSent[c][2]) = "ERROR"
          /\ srvPc[c] = "closed"
          /\ srvMsgs[c] = <<>>
          /\ srvEnded[c] = 0

C1_HandshakeGate == \A c \in Conns : C1_After(c)

\* a first line with an empty jobId was answered with an ERROR line, and
\* the BATCH line that followed it was written but never handled
C1_Witness ==
    /\ srvStart[1] = "err"
    /\ srvFirst[1] = << <<"START_STREAM", ":", ":", "1">> >>
    /\ srvSent[1][2] = ErrEmptyIds
    /\ peerPc[1] = "done"
    /\ srvPc[1] = "closed"

\* a well-formed first line was acknowledged and the BATCH line handled
C1_WitnessAccepted ==
    /\ srvStart[1] = "ok"
    /\ srvFirst[1] = << <<"START_STREAM", ":", "j", ":", "1">> >>
    /\ srvMsgs[1] = <<BatchLineA>>

(***************************************************************************)
(* The backup reader (brfs): network.Client, network.Stream and            *)
(* BackupProcessor; one goroutine and one connection per stream            *)
(***************************************************************************)
MaxLineFiles == 3       \* files in the list the reader splits
MaxBatchSize == 2       \* largest ClientHashQueryBatchSize
MaxRequests == 3        \* requests one stream may send

\* main passes "BackupJob"; NewStream takes whatever ctx.Value("jobId") holds
JobIds == {<<"BackupJob">>, <<>>}
\* ParseConfig leaves 0 when the key is absent and accepts any integer
BatchSizes == (0 - 1)..MaxBatchSize

\* common.ParseConfig, the ClientHashQueryBatchSize key: its number when the
\* file has the key (any integer strconv.Atoi accepts), the zero value of
\* Config{} when it has not; the key is not among the required fields
ParseConfig(found, number) ==
    [ClientHashQueryBatchSize |-> IF found THEN number ELSE 0]

cliConfig == <<lnJobId, lnBatchSize, lnFiles>>

IsPrefix(s, t) == Len(s) <= Len(t) /\ SubSeq(t, 1, Len(s)) = s

\* writer.WriteString(message + "\n"), Flush: lost when the server has closed
CliWrite(c, line) ==
    lnC2S' = IF srvPc[c] = "closed" THEN lnC2S
             ELSE [lnC2S EXCEPT ![c] = Append(@, line)]

\* a read returns when a line has arrived or the server has closed
ResponseReady(c) == lnS2C[c] # <<>> \/ srvPc[c] = "closed"

\* Connection.WaitForResponse: ReadString('\n'), TrimSpace
WaitForResponse(c) ==
    IF lnS2C[c] # <<>>
    THEN [err |-> FALSE, response |-> TrimSpace(Head(lnS2C[c]))]
    ELSE [err |-> TRUE, response |-> <<>>]

RECURSIVE DigitPrefix(_)
DigitPrefix(s) ==
    IF s # <<>> /\ IsDigit(Head(s)) THEN <<Head(s)>> \o DigitPrefix(Tail(s))
    ELSE <<>>

\* fmt.Sscanf(response, "CONNECTION_ID:%d", &connectionID)
SscanfConnectionID(line) ==
    LET digits == DigitPrefix(SubSeq(line, 3, Len(line)))
        ok == HasPrefix(line, <<"CONNECTION_ID", ":">>) /\ digits # <<>>
    IN  [err |-> ~ok, id |-> IF ok THEN DigitsVal(digits) ELSE 0]

\* fmt.Sprintf("START_STREAM:%s:%d", s.jobId, s.streamId); the stream of
\* connection c has index c - 1
StartLine(c) == StartStreamPrefix \o lnJobId \o <<":">> \o Itoa(c - 1)

StartAcceptedAny(response) == TRUE

\* if response != "START_STREAM_OK" { return ... unexpected response }
StartAccepted(response) == response = StartStreamOk

\* end := i + batchSize; if end > len(b.files) { end = len(b.files) }
BatchEnd(i, batchSize, n) == IF i + batchSize > n THEN n ELSE i + batchSize

\* "BATCH:" + strings.Join(filenames, ",")
BatchLine(batch) ==
    BatchPrefix \o Join([j \in 1..Len(batch) |-> <<batch[j]>>], ",")

NextIndexOne(i, batchSize) == i + 1

\* i += batchSize
NextIndex(i, batchSize) == i + batchSize

AfterSendMessageNoWait == "process"

\* Stream.SendMessage returns s.connection.WaitForResponse()
AfterSendMessage == "batchWait"

\* c.connect(): the dial succeeds or fails
CliConnect(c) ==
    /\ cliPc[c] = "new"
    /\ \/ /\ ~srvFatal
          /\ lnCliEnd' = [lnCliEnd EXCEPT ![c] = "open"]
          /\ cliPc' = [cliPc EXCEPT ![c] = "hello"]
          /\ UNCHANGED cliErr
       \/ /\ cliPc' = [cliPc EXCEPT ![c] = "done"]
          /\ cliErr' = [cliErr EXCEPT ![c] = "start failed"]
          /\ UNCHANGED lnCliEnd
    /\ UNCHANGED <<lnC2S, lnS2C, srvVars, peerVars, cliConfig, cliConnId, cliI,
                   cliStartResp, cliReqs, cliAcks, cliSubmitted, lnResult,
                   srvFatal>>
    /\ UNCHANGED exceptLine

\* CreateConnection: scanner.Scan() takes what has arrived, the first line
\* must be CONNECTION_ID:<n>; on failure netConn.Close()
CliCreateConnection(c) ==
    /\ cliPc[c] = "hello"
    /\ ResponseReady(c)
    /\ LET scanned == lnS2C[c] # <<>>
           parsed == IF scanned THEN SscanfConnectionID(Head(lnS2C[c]))
                     ELSE [err |-> TRUE, id |-> 0]
       IN  /\ lnS2C' = [lnS2C EXCEPT ![c] = <<>>]
           /\ IF parsed.err
              THEN /\ lnCliEnd' = [lnCliEnd EXCEPT ![c] = "closed"]
                   /\ cliPc' = [cliPc EXCEPT ![c] = "done"]
                   /\ cliErr' = [cliErr EXCEPT ![c] = "start failed"]
                   /\ UNCHANGED cliConnId
              ELSE /\ cliConnId' = [cliConnId EXCEPT ![c] = parsed.id]
                   /\ cliPc' = [cliPc EXCEPT ![c] = "start"]
                   /\ UNCHANGED <<lnCliEnd, cliErr>>
    /\ UNCHANGED <<lnC2S, srvVars, peerVars, cliConfig, cliI, cliStartResp,
                   cliReqs, cliAcks, cliSubmitted, lnResult, srvFatal>>
    /\ UNCHANGED exceptLine

\* StartStream: s.connection.SendMessage(START_STREAM:<jobId>:<streamId>)
CliStartStream(c) ==
    /\ cliPc[c] = "start"
    /\ CliWrite(c, StartLine(c))
    /\ cliPc' = [cliPc EXCEPT ![c] = "startWait"]
    /\ UNCHANGED <<lnS2C, lnCliEnd, srvVars, peerVars, cliConfig, cliConnId,
                   cliI, cliStartResp, cliReqs, cliAcks, cliSubmitted, cliErr,
                   lnResult, srvFatal>>
    /\ UNCHANGED exceptLine

\* StartStream: WaitForResponse; NewStream returns the Stream only for
\* START_STREAM_OK, otherwise the error (the connection is left open) and
\* the goroutine reports "start failed"
CliStartAck(c) ==
    /\ cliPc[c] = "startWait"
    /\ ResponseReady(c)
    /\ LET r == WaitForResponse(c) IN
       /\ lnS2C' = [lnS2C EXCEPT ![c] = IF r.err THEN @ ELSE Tail(@)]
       /\ cliStartResp' = [cliStartResp EXCEPT
                              ![c] = IF r.err THEN @ ELSE <<r.response>>]
       /\ IF ~r.err /\ StartAccepted(r.response)
          THEN /\ cliPc' = [cliPc EXCEPT ![c] = "process"]
               /\ UNCHANGED cliErr
          ELSE /\ cliPc' = [cliPc EXCEPT ![c] = "done"]
               /\ cliErr' = [cliErr EXCEPT ![c] = "start failed"]
    /\ UNCHANGED <<lnC2S, lnCliEnd, srvVars, peerVars, cliConfig, cliConnId,
                   cliI, cliReqs, cliAcks, cliSubmitted, lnResult, srvFatal>>
    /\ UNCHANGED exceptLine

\* Connection.Close: "CLOSE\n", Flush, conn.Close()
CloseStream(c) ==
    /\ CliWrite(c, CloseLine)
    /\ lnCliEnd' = [lnCliEnd EXCEPT ![c] = "closed"]

\* Process, one turn of the loop: the batch files[i:end] goes out with
\* Stream.SendMessage, which then waits for the response
CliSendBatch(c) ==
    /\ cliPc[c] = "process"
    /\ cliI[c] < Len(lnFiles[c])
    /\ Len(cliReqs[c]) < MaxRequests
    /\ LET end == BatchEnd(cliI[c], lnBatchSize, Len(lnFiles[c])) IN
       /\ end >= cliI[c]
       /\ LET batch == Slice(lnFiles[c], cliI[c], end) IN
          /\ CliWrite(c, BatchLine(batch))
          /\ cliReqs' = [cliReqs EXCEPT ![c] = Append(@, BatchLine(batch))]
          /\ cliSubmitted' = [cliSubmitted EXCEPT ![c] = @ \o batch]
    /\ cliPc' = [cliPc EXCEPT ![c] = AfterSendMessage]
    /\ UNCHANGED <<lnS2C, lnCliEnd, srvVars, peerVars, cliConfig, cliConnId,
                   cliI, cliStartResp, cliAcks, cliErr, lnResult, srvFatal>>
    /\ UNCHANGED exceptLine

\* Process: b.files[i:end] with end < i panics (slice bounds out of range);
\* the deferred CloseStream of the panicking goroutine runs, the reader
\* dies and the system closes its connections
CliPanic(c) ==
    /\ cliPc[c] = "process"
    /\ cliI[c] < Len(lnFiles[c])
    /\ BatchEnd(cliI[c], lnBatchSize, Len(lnFiles[c])) < cliI[c]
    /\ CliWrite(c, CloseLine)
    /\ cliPc' = [d \in Conns |-> "done"]
    /\ lnCliEnd' = [d \in Conns |->
                      IF lnCliEnd[d] = "open" THEN "closed" ELSE lnCliEnd[d]]
    /\ lnResult' = "panic"
    /\ UNCHANGED <<lnS2C, srvVars, peerVars, cliConfig, cliConnId, cliI,
                   cliStartResp, cliReqs, cliAcks, cliSubmitted, cliErr,
                   srvFatal>>
    /\ UNCHANGED exceptLine

\* Process: the response to the batch; BATCH_OK lets the loop go on, any
\* other response or a read error ends Process (deferred CloseStream)
CliBatchAck(c) ==
    /\ cliPc[c] = "batchWait"
    /\ ResponseReady(c)
    /\ LET r == WaitForResponse(c) IN
       /\ lnS2C' = [lnS2C EXCEPT ![c] = IF r.err THEN @ ELSE Tail(@)]
       /\ cliAcks' = [cliAcks EXCEPT
                         ![c] = IF r.err THEN @ ELSE Append(@, r.response)]
       /\ IF ~r.err /\ r.response = BatchOk
          THEN /\ cliI' = [cliI EXCEPT ![c] = NextIndex(@, lnBatchSize)]
               /\ cliPc' = [cliPc EXCEPT ![c] = "process"]
               /\ UNCHANGED <<lnC2S, lnCliEnd, cliErr>>
          ELSE /\ CloseStream(c)
               /\ cliPc' = [cliPc EXCEPT ![c] = "done"]
               /\ cliErr' = [cliErr EXCEPT ![c] = "processing failed"]
               /\ UNCHANGED cliI
    /\ UNCHANGED <<srvVars, peerVars, cliConfig, cliConnId, cliStartResp,
                   cliReqs, cliSubmitted, lnResult, srvFatal>>
    /\ UNCHANGED exceptLine

\* Process: the loop is over, return nil (deferred CloseStream)
CliReturn(c) ==
    /\ cliPc[c] = "process"
    /\ cliI[c] >= Len(lnFiles[c])
    /\ CloseStream(c)
    /\ cliPc' = [cliPc EXCEPT ![c] = "done"]
    /\ cliErr' = [cliErr EXCEPT ![c] = "nil"]
    /\ UNCHANGED <<lnS2C, srvVars, peerVars, cliConfig, cliConnId, cliI,
                   cliStartResp, cliReqs, cliAcks, cliSubmitted, lnResult,
                   srvFatal>>
    /\ UNCHANGED exceptLine

\* processStreams: wg.Wait(), close(errors), the first error or nil
LineDecide ==
    /\ lnResult = "none"
    /\ \A c \in Conns : cliPc[c] = "done"
    /\ lnResult' = IF \E c \in Conns : cliErr[c] # "nil" THEN "err" ELSE "nil"
    /\ UNCHANGED <<netVars, srvVars, peerVars, cliConfig, cliPc, cliConnId,
                   cliI, cliStartResp, cliReqs, cliAcks, cliSubmitted, cliErr,
                   srvFatal>>
    /\ UNCHANGED exceptLine

ClientNext(c) ==
    \/ CliConnect(c) \/ CliCreateConnection(c) \/ CliStartStream(c)
    \/ CliStartAck(c) \/ CliSendBatch(c) \/ CliPanic(c) \/ CliBatchAck(c)
    \/ CliReturn(c)

(***************************************************************************)
(* OnMessage and OnConnectionEnd read h.streams without streamsMu while    *)
(* OnConnectionStart and OnConnectionEnd of another connection write it    *)
(* under the lock: a data race.  The read may go through (the actions      *)
(* above) or the runtime stops the server ("concurrent map read and map    *)
(* write").                                                                *)
(***************************************************************************)
ReadsStreams(c) ==
    srvPc[c] = "loop" /\ (lnC2S[c] # <<>> \/ lnCliEnd[c] = "closed")

WritesStreams(d) ==
    \/ /\ srvPc[d] = "start"
       /\ ScanReady(d)
       /\ ~OnConnectionStart(hStreams, hJobs, srvConnId[d], ScanOf(d)).err
    \/ /\ srvPc[d] = "loop"
       /\ \/ lnC2S[d] # <<>> /\ TrimSpace(Head(lnC2S[d])) = CloseLine
          \/ lnC2S[d] = <<>> /\ lnCliEnd[d] = "closed"

SrvMapRace ==
    /\ \E c \in Conns : \E d \in Conns \ {c} :
          ReadsStreams(c) /\ WritesStreams(d)
    /\ srvFatal' = TRUE
    /\ srvPc' = [c \in Conns |-> "closed"]
    /\ UNCHANGED <<netVars, srvConnId, connectionCounter, hStreams, hJobs,
                   srvFirst, srvStart, srvSent, srvMsgs, srvEnded, srvHandler,
                   peerVars, cliConfig, cliPc, cliConnId, cliI, cliStartResp, cliReqs,
                   cliAcks, cliSubmitted, cliErr, lnResult>>
    /\ UNCHANGED exceptLine

(***************************************************************************)
(* SpecLine: the reader splits a file list over two streams and runs them  *)
(* against the server                                                      *)
(***************************************************************************)
LineInit ==
    /\ ServerInit
    /\ peerPc = [c \in Conns |-> "off"]
    /\ peerScript = [c \in Conns |-> <<>>]
    /\ \E files \in SeqsUpTo(FileNames, MaxLineFiles) :
          lnFiles = SplitByStreams(files, Cardinality(Conns)).lists
    /\ lnJobId \in JobIds
    /\ \E found \in BOOLEAN, number \in BatchSizes :
          lnBatchSize = ParseConfig(found, number).ClientHashQueryBatchSize
    /\ cliPc = [c \in Conns |-> "new"]
    /\ cliConnId = [c \in Conns |-> 0]
    /\ cliI = [c \in Conns |-> 0]
    /\ cliStartResp = [c \in Conns |-> <<>>]
    /\ cliReqs = [c \in Conns |-> <<>>]
    /\ cliAcks = [c \in Conns |-> <<>>]
    /\ cliSubmitted = [c \in Conns |-> <<>>]
    /\ cliErr = [c \in Conns |-> "none"]
    /\ lnResult = "none"

LineNext ==
    \/ \E c \in Conns : ServerNext(c) \/ ClientNext(c)
    \/ SrvMapRace
    \/ LineDecide

InitLine == LineInit /\ SplitIdle /\ DBIdle /\ CoordIdle /\ GrpcIdle
        /\ ChunkIdle
        /\ ConcIdle /\ ProtoIdle /\ StoreIdle /\ CrcIdle /\ BufIdle
        /\ CountIdle /\ ShutIdle /\ LogIdle /\ BatchIdle /\ MetaIdle
        /\ DestIdle

SpecLine == InitLine /\ [][LineNext]_vars

(***************************************************************************)
(* C2: NewStream returns a usable Stream only after StartStream has sent   *)
(* START_STREAM:<jobId>:<streamId> and received exactly START_STREAM_OK;   *)
(* no BATCH request is sent on a connection before that acknowledgment,    *)
(* and any other reply makes the stream session fail.                      *)
(***************************************************************************)
\* NewStream has returned a Stream to the goroutine of connection c
StreamReturned(c) ==
    \/ cliPc[c] \in {"process", "batchWait"}
    \/ cliErr[c] \in {"nil", "processing failed"}
    \/ cliReqs[c] # <<>>

C2_After(c) ==
    /\ StreamReturned(c) =>
          /\ cliStartResp[c] = <<StartStreamOk>>
          /\ srvFirst[c] = <<StartLine(c)>>
          /\ srvStart[c] = "ok"
    /\ (\E k \in 1..Len(lnC2S[c]) : Head(lnC2S[c][k]) = "BATCH") =>
          /\ srvStart[c] = "ok"
          /\ cliStartResp[c] = <<StartStreamOk>>
    /\ srvFirst[c] # <<>> => srvFirst[c][1] = StartLine(c)
    /\ (cliStartResp[c] # <<>> /\ cliStartResp[c] # <<StartStreamOk>>) =>
          /\ cliPc[c] = "done"
          /\ cliErr[c] = "start failed"
          /\ cliReqs[c] = <<>>
          /\ lnResult # "nil"

C2_StartBeforeUse == \A c \in Conns : C2_After(c)

\* a stream was opened and acknowledged, and a batch went through it
C2_Witness ==
    /\ cliStartResp[1] = <<StartStreamOk>>
    /\ cliReqs[1] # <<>>
    /\ cliAcks[1] = <<BatchOk>>

\* the server answered START_STREAM with an ERROR line and processStreams
\* returned an error
C2_WitnessRefused ==
    /\ cliStartResp[1] = <<ErrEmptyIds>>
    /\ cliErr[1] = "start failed"
    /\ lnResult = "err"

(***************************************************************************)
(* C6: the line protocol is half-duplex per connection: Process sends      *)
(* request k+1 through Stream.SendMessage only after the response to       *)
(* request k has been received, so at most one request is outstanding on   *)
(* a connection and the server holds at most one pending request per       *)
(* connection.                                                             *)
(***************************************************************************)
\* the requests of connection c that the server has not yet read
PendingRequests(c) ==
    {k \in 1..Len(lnC2S[c]) : lnC2S[c][k] # CloseLine}

C6_After(c) ==
    /\ Len(cliReqs[c]) - Len(cliAcks[c]) \in {0, 1}
    /\ cliPc[c] = "process" => Len(cliReqs[c]) = Len(cliAcks[c])
    /\ Cardinality(PendingRequests(c)) <= 1
    /\ Len(lnS2C[c]) <= 1
    /\ Len(cliReqs[c]) - Len(srvMsgs[c]) \in {0, 1}

C6_HalfDuplex == \A c \in Conns : C6_After(c)

\* the second request of a stream is outstanding, the first was answered
C6_Witness ==
    /\ Len(cliReqs[1]) = 2
    /\ Len(cliAcks[1]) = 1
    /\ Cardinality(PendingRequests(1)) = 1

(***************************************************************************)
(* C8: within one stream every file of the stream is submitted exactly     *)
(* once and in the order of the stream's file list (all of them when       *)
(* Process returns nil), and the server processes and acknowledges the     *)
(* requests of the stream in exactly the order they were sent.             *)
(***************************************************************************)
\* the acknowledgments the server wrote after CONNECTION_ID and
\* START_STREAM_OK
ServerAcks(c) == SubSeq(srvSent[c], 3, Len(srvSent[c]))

C8_After(c) ==
    /\ IsPrefix(cliSubmitted[c], lnFiles[c])
    /\ cliErr[c] = "nil" =>
          /\ cliSubmitted[c] = lnFiles[c]
          /\ Len(cliAcks[c]) = Len(cliReqs[c])
    /\ IsPrefix(srvMsgs[c], cliReqs[c])
    /\ Len(ServerAcks(c)) = Len(srvMsgs[c])
    /\ IsPrefix(cliAcks[c], ServerAcks(c))
    /\ \A k \in 1..Len(ServerAcks(c)) : ServerAcks(c)[k] = BatchOk

C8_InOrder == \A c \in Conns : C8_After(c)

\* a stream of two files went through in two batches, both processed and
\* acknowledged in the order sent
C8_Witness ==
    /\ lnFiles[1] = <<"a", "b">>
    /\ cliErr[1] = "nil"
    /\ cliReqs[1] = << <<"BATCH", ":", "a">>, <<"BATCH", ":", "b">> >>
    /\ srvMsgs[1] = cliReqs[1]
    /\ cliAcks[1] = <<BatchOk, BatchOk>>

(***************************************************************************)
(* gRPC backup streams: processStream and sendFilesMetadata of the reader  *)
(* (cmd/brfs), ProcessBackupStream and handleFileRequest of the writer     *)
(* (cmd/bwfs).  A session is one ProcessBackupStream call; the two         *)
(* sessions may belong to one run of the reader or to two runs.  The       *)
(* single BackupStream of the writer serves every session and all          *)
(* sessions work on the same files table.                                  *)
(***************************************************************************)
MaxGrpcFiles == 2       \* files in the list of one session

\* common.GetHostname() of the reader
ReaderHost == "h1"

\* the files of the sessions: a file, the same file after a change (its
\* change time moves with its modification time), and another file
GrpcFileInfos ==
    {f \in FileInfos : f.CTime = f.ModTime /\ (f.Path = "/q" => f.ModTime = 1)}

\* ListRecursive lists every path once
DistinctPaths(list) ==
    \A j, k \in 1..Len(list) : j # k => list[j].Path # list[k].Path

GrpcFileLists == {list \in SeqsUpTo(GrpcFileInfos, MaxGrpcFiles) :
                     DistinctPaths(list)}

\* files.Encode: gob encoding of the FileInfo
Encode(fileInfo) ==
    [err |-> FALSE,
     data |-> <<"gob", fileInfo.Path, fileInfo.ModTime, fileInfo.CTime>>]

\* files.DecodeFileInfo
DecodeFileInfo(data) ==
    IF Len(data) = 4 /\ data[1] = "gob"
    THEN [err |-> FALSE,
          fileInfo |-> [Path |-> data[2], ModTime |-> data[3], CTime |-> data[4]]]
    ELSE [err |-> TRUE, fileInfo |-> <<>>]

\* the pb.FileRequest sendFilesMetadata builds; its RequestType is a
\* FileRequest_FileInfo
FileRequest(streamId, file, attr) ==
    [StreamId |-> streamId, Type |-> "FileInfo", Hostname |-> ReaderHost,
     Filename |-> file.Path, Attributes |-> attr]

\* the pb.FileResponse handleFileRequest builds
FileResponse(streamId, fileInfo) ==
    [StreamId |-> streamId, Type |-> "Result", Filename |-> fileInfo.Path]

\* fileDB.fileExists and fileDB.addFile: the record of a file is keyed by
\* (path, source host, modification time); the source host is the reader's
RecordHost == ReaderHost
fileExists(rows, fileInfo) ==
    FileExists(rows, fileInfo.Path, RecordHost, fileInfo.ModTime, fileInfo.CTime)
addFile(rows, fileInfo, backupTime) ==
    AddFile(rows, fileInfo, RecordHost, backupTime)

\* Writer.FileExists, Writer.AddFile
WriterFileExists(rows, fileInfo) == fileExists(rows, fileInfo)
WriterAddFile(rows, fileInfo, backupTime) == addFile(rows, fileInfo, backupTime)

AddNeededAlways(exists) == TRUE

\* if fileExists { ... } else { s.writer.AddFile(fileInfo, "") }
AddNeeded(exists) == ~exists

\* s.clientStreamID is a field of the one BackupStream; the handler reads it
\* and never sets it: it holds its zero value or an id it was given
ClientStreamIDs == {0} \cup Conns

\* streamCtx, cancel := context.WithTimeout(ctx, timeout): the context of
\* the stream is done once the timeout has passed
CtxDone(s) == gCtx[s] = "expired"

\* the writer finds the stream's context cancelled when the reader's
\* context is done or processStream has returned (defer cancel())
ClientGone(s) == gcPc[s] = "done" \/ CtxDone(s)

SendFailsNever(s) == FALSE

\* stream.Send fails once the RPC has ended or the stream's context is done
SendFails(s) == gsPc[s] = "done" \/ CtxDone(s)

\* client.ProcessBackupStream(streamCtx): the stream opens and the writer's
\* handler starts, or the call fails; it fails when the context is done
GcOpen(s) ==
    /\ gcPc[s] = "open"
    /\ \/ /\ ~CtxDone(s)
          /\ gcPc' = [gcPc EXCEPT ![s] = "send"]
          /\ gsPc' = [gsPc EXCEPT ![s] = "recv"]
          /\ UNCHANGED gcErr
       \/ /\ gcPc' = [gcPc EXCEPT ![s] = "done"]
          /\ gcErr' = [gcErr EXCEPT ![s] = "err"]
          /\ UNCHANGED gsPc
    /\ UNCHANGED <<gFiles, gStop, gcI, gcSent, gcRecv, gReq, gSendClosed,
                   gResp, gsCur, gsExists, gsRet, filesProcessed,
                   clientStreamID, gAddCalls, gRaced, gHandled, gsReqs, gCtx,
                   dbRows>>
    /\ UNCHANGED exceptGrpc

\* a failure ends the function whatever the switch says
StopStreamAlways(failed, stopStreamOnFileError) == failed

\* if conf.StopStreamOnFileError { return err }, after a failure
StopStream(failed, stopStreamOnFileError) == failed /\ stopStreamOnFileError

\* sendFilesMetadata, one turn of the loop: Encode, stream.Send; a failure
\* ends the function only when StopStreamOnFileError is set
GcSend(s) ==
    /\ gcPc[s] = "send"
    /\ gcI[s] < Len(gFiles[s])
    /\ LET file == gFiles[s][gcI[s] + 1]
           enc == Encode(file)
           sendFails == SendFails(s)
       IN  IF StopStream(enc.err \/ sendFails, gStop)
           THEN /\ gcPc' = [gcPc EXCEPT ![s] = "done"]
                /\ gcErr' = [gcErr EXCEPT ![s] = "err"]
                /\ UNCHANGED <<gcI, gcSent, gReq>>
           ELSE /\ gcI' = [gcI EXCEPT ![s] = @ + 1]
                /\ IF enc.err \/ sendFails
                   THEN UNCHANGED <<gcSent, gReq>>
                   ELSE /\ gcSent' = [gcSent EXCEPT ![s] = @ + 1]
                        /\ gReq' = [gReq EXCEPT
                              ![s] = Append(@, FileRequest(s, file, enc.data))]
                /\ UNCHANGED <<gcPc, gcErr>>
    /\ UNCHANGED <<gFiles, gStop, clientStreamID, gcRecv, gSendClosed, gResp,
                   gsPc, gsCur, gsExists, gsRet, filesProcessed, gAddCalls,
                   gRaced, gHandled, gsReqs, gCtx, dbRows>>
    /\ UNCHANGED exceptGrpc

\* sendFilesMetadata has gone through the list: stream.CloseSend()
GcCloseSend(s) ==
    /\ gcPc[s] = "send"
    /\ gcI[s] = Len(gFiles[s])
    /\ gSendClosed' = [gSendClosed EXCEPT ![s] = TRUE]
    /\ gcPc' = [gcPc EXCEPT ![s] = "recv"]
    /\ UNCHANGED <<gFiles, gStop, gcI, gcSent, gcRecv, gcErr, gReq, gResp,
                   gsPc, gsCur, gsExists, gsRet, filesProcessed,
                   clientStreamID, gAddCalls, gRaced, gHandled, gsReqs, gCtx,
                   dbRows>>
    /\ UNCHANGED exceptGrpc

\* the Recv loop of processStream: a response (its StreamId is checked;
\* handleResponse logs a Result and returns nil), io.EOF after the handler
\* returned nil, an error after it returned an error or when the stream's
\* context is done (a response that had arrived before may still be read)
GcRecv(s) ==
    /\ gcPc[s] = "recv"
    /\ gResp[s] # <<>> \/ gsPc[s] = "done" \/ CtxDone(s)
    /\ \/ /\ gResp[s] # <<>>
          /\ gResp' = [gResp EXCEPT ![s] = Tail(@)]
          /\ gcRecv' = [gcRecv EXCEPT ![s] = @ + 1]
          /\ IF Head(gResp[s]).StreamId # s
             THEN /\ gcPc' = [gcPc EXCEPT ![s] = "done"]
                  /\ gcErr' = [gcErr EXCEPT ![s] = "err"]
             ELSE UNCHANGED <<gcPc, gcErr>>
       \/ /\ gResp[s] = <<>> \/ CtxDone(s)
          /\ gsPc[s] = "done" \/ CtxDone(s)
          /\ gcPc' = [gcPc EXCEPT ![s] = "done"]
          /\ gcErr' = [gcErr EXCEPT
                          ![s] = IF gsRet[s] = "nil" /\ ~CtxDone(s)
                                 THEN "nil" ELSE "err"]
          /\ UNCHANGED <<gResp, gcRecv>>
    /\ UNCHANGED <<gFiles, gStop, clientStreamID, gcI, gcSent, gReq,
                   gSendClosed, gsPc, gsCur, gsExists, gsRet, filesProcessed,
                   gAddCalls, gRaced, gHandled, gsReqs, gCtx, dbRows>>
    /\ UNCHANGED exceptGrpc

\* the timeout of streamCtx passes while the RPC is running
GcDeadline(s) ==
    /\ gcPc[s] \in {"open", "send", "recv"}
    /\ gsPc[s] # "done"
    /\ gCtx[s] = "live"
    /\ gCtx' = [gCtx EXCEPT ![s] = "expired"]
    /\ UNCHANGED <<gFiles, gStop, gcPc, gcI, gcSent, gcRecv, gcErr, gReq,
                   gSendClosed, gResp, gsPc, gsCur, gsExists, gsRet,
                   filesProcessed, clientStreamID, gAddCalls, gRaced,
                   gHandled, gsReqs, dbRows>>
    /\ UNCHANGED exceptGrpc

\* the handler returns: the RPC ends
GsReturn(s, ret) ==
    /\ gsPc' = [gsPc EXCEPT ![s] = "done"]
    /\ gsRet' = [gsRet EXCEPT ![s] = ret]

\* ProcessBackupStream: stream.Recv() gives a request, which goes to
\* handleResponse and handleFileRequest up to the FileExists query
GsRecv(s) ==
    /\ gsPc[s] = "recv"
    /\ gReq[s] # <<>>
    /\ LET dec == DecodeFileInfo(Head(gReq[s]).Attributes) IN
       /\ gReq' = [gReq EXCEPT ![s] = Tail(@)]
       /\ gsReqs' = [gsReqs EXCEPT ![s] = Append(@, Head(gReq[s]))]
       /\ IF dec.err
          THEN /\ GsReturn(s, "err")
               /\ UNCHANGED <<gsCur, gsExists, filesProcessed, gRaced>>
          ELSE /\ filesProcessed' = filesProcessed + 1
               /\ gsCur' = [gsCur EXCEPT ![s] = <<dec.fileInfo>>]
               /\ gsExists' = [gsExists EXCEPT
                                  ![s] = WriterFileExists(dbRows, dec.fileInfo)]
               /\ gsPc' = [gsPc EXCEPT ![s] = "decide"]
               /\ gRaced' = IF \E t \in Conns \ {s} :
                                  gsPc[t] = "decide" /\ gsCur[t] = <<dec.fileInfo>>
                            THEN gRaced \cup {dec.fileInfo} ELSE gRaced
               /\ UNCHANGED gsRet
    /\ UNCHANGED <<gFiles, gStop, clientStreamID, gcPc, gcI, gcSent, gcRecv,
                   gcErr, gSendClosed, gResp, gAddCalls, gHandled, gCtx,
                   dbRows>>
    /\ UNCHANGED exceptGrpc

\* ProcessBackupStream: stream.Recv() gives io.EOF after CloseSend (return
\* nil) or an error after the client has gone (return err)
GsRecvEnd(s) ==
    /\ gsPc[s] = "recv"
    /\ \/ /\ gReq[s] = <<>>
          /\ gSendClosed[s]
          /\ ~ClientGone(s)
          /\ GsReturn(s, "nil")
       \/ /\ ClientGone(s)
          /\ GsReturn(s, "err")
    /\ UNCHANGED <<gFiles, gStop, clientStreamID, gcPc, gcI, gcSent, gcRecv,
                   gcErr, gReq, gSendClosed, gResp, gsCur, gsExists,
                   filesProcessed, gAddCalls, gRaced, gHandled, gsReqs, gCtx,
                   dbRows>>
    /\ UNCHANGED exceptGrpc

\* handleFileRequest after the FileExists query: AddFile when the file was
\* not found, then the response, which handleResponse sends
GsDecide(s) ==
    /\ gsPc[s] = "decide"
    /\ LET fileInfo == gsCur[s][1] IN
       \E backupTime \in BackupTimes :
          LET add == AddNeeded(gsExists[s])
              res == IF add THEN WriterAddFile(dbRows, fileInfo, backupTime)
                     ELSE [rows |-> dbRows, err |-> FALSE]
          IN  /\ dbRows' = res.rows
              /\ gAddCalls' =
                    IF add
                    THEN gAddCalls \cup
                         {[file |-> fileInfo, exists |-> gsExists[s]]}
                    ELSE gAddCalls
              /\ IF res.err \/ ClientGone(s)
                 THEN /\ GsReturn(s, "err")
                      /\ UNCHANGED <<gResp, gHandled>>
                 ELSE /\ gResp' = [gResp EXCEPT
                            ![s] = Append(@, FileResponse(clientStreamID, fileInfo))]
                      /\ gHandled' = gHandled \cup {fileInfo}
                      /\ gsPc' = [gsPc EXCEPT ![s] = "recv"]
                      /\ UNCHANGED gsRet
    /\ UNCHANGED <<gFiles, gStop, clientStreamID, gcPc, gcI, gcSent, gcRecv,
                   gcErr, gReq, gSendClosed, gsCur, gsExists, filesProcessed,
                   gRaced, gsReqs, gCtx>>
    /\ UNCHANGED exceptGrpc

\* main launches processStream for every stream that has files
GrpcInit ==
    /\ gFiles \in [Conns -> GrpcFileLists]
    /\ gStop \in BOOLEAN
    /\ gcPc = [s \in Conns |-> IF Len(gFiles[s]) > 0 THEN "open" ELSE "none"]
    /\ gcI = [s \in Conns |-> 0]
    /\ gcSent = [s \in Conns |-> 0]
    /\ gcRecv = [s \in Conns |-> 0]
    /\ gcErr = [s \in Conns |-> "none"]
    /\ gReq = [s \in Conns |-> <<>>]
    /\ gSendClosed = [s \in Conns |-> FALSE]
    /\ gResp = [s \in Conns |-> <<>>]
    /\ gsPc = [s \in Conns |-> "none"]
    /\ gsCur = [s \in Conns |-> <<>>]
    /\ gsExists = [s \in Conns |-> FALSE]
    /\ gsRet = [s \in Conns |-> "none"]
    /\ filesProcessed = 0
    /\ clientStreamID \in ClientStreamIDs
    /\ gAddCalls = {}
    /\ gRaced = {}
    /\ gHandled = {}
    /\ gsReqs = [s \in Conns |-> <<>>]
    /\ gCtx = [s \in Conns |-> "live"]

GrpcNext ==
    \E s \in Conns :
        \/ GcOpen(s) \/ GcSend(s) \/ GcCloseSend(s) \/ GcRecv(s)
        \/ GsRecv(s) \/ GsRecvEnd(s) \/ GsDecide(s)

InitGrpc == GrpcInit /\ DBIdle /\ SplitIdle /\ CoordIdle /\ LineIdle
        /\ ChunkIdle
        /\ ConcIdle /\ ProtoIdle /\ StoreIdle /\ CrcIdle /\ BufIdle
        /\ CountIdle /\ ShutIdle /\ LogIdle /\ BatchIdle /\ MetaIdle
        /\ DestIdle

SpecGrpc == InitGrpc /\ [][GrpcNext]_vars

(***************************************************************************)
(* C7: on one gRPC backup stream the exchange is request-then-response     *)
(* with no pipelining: processStream does not send the file request k+1    *)
(* before it has received the server's response to file request k.         *)
(***************************************************************************)
C7_NoPipelining == \A s \in Conns : gcSent[s] - gcRecv[s] <= 1

\* what the code does: every response is received after CloseSend, when all
\* requests of the list have been sent
C7_RecvAfterAllSent ==
    \A s \in Conns : gcRecv[s] > 0 => gSendClosed[s] /\ gcI[s] = Len(gFiles[s])

\* both requests of a two-file list are out and no response has been read
C7_PipelinedState ==
    /\ Len(gFiles[1]) = 2
    /\ gcSent[1] = 2
    /\ gcRecv[1] = 0

(***************************************************************************)
(* C10: handleFileRequest calls AddFile only when FileExists returned      *)
(* false, so a file whose (path, host, modTime) already matches a record   *)
(* is not stored again: any sequence of sequential submissions of the      *)
(* same unchanged file, on one or several streams, creates exactly one     *)
(* FileRecord.                                                             *)
(***************************************************************************)
RecordsOf(fileInfo) ==
    {r \in dbRows : /\ r.path = fileInfo.Path
                    /\ r.source_host = RecordHost
                    /\ r.modtime = fileInfo.ModTime}

C10_SkipCorrect ==
    /\ \A a \in gAddCalls : ~a.exists
    /\ \A f \in GrpcFileInfos :
          f \notin gRaced =>
             /\ Cardinality(RecordsOf(f)) <= 1
             /\ f \in gHandled => Cardinality(RecordsOf(f)) = 1

\* two sessions submitted the same unchanged file one after the other, both
\* were answered, and the table holds one record of it
C10_Witness ==
    \E f \in GrpcFileInfos :
        /\ gFiles[1] = <<f>>
        /\ gFiles[2] = <<f>>
        /\ gsRet[1] = "nil"
        /\ gsRet[2] = "nil"
        /\ filesProcessed = 2
        /\ f \notin gRaced
        /\ Cardinality(gAddCalls) = 1
        /\ Cardinality(dbRows) = 1

(***************************************************************************)
(* C11: a FileRecord is committed only after the file's transfer finished  *)
(* and the whole-file checksum the client sent matched (FILE_OK); while    *)
(* the transfer is incomplete or the checksum mismatches, the table holds  *)
(* no FileRecord of the file, so a later FileNeeded query for it still     *)
(* answers "needed".  Stated on the writer: every record of the table is   *)
(* of a file whose whole-file checksum request the writer has received.    *)
(***************************************************************************)
ChecksumReceived(path) ==
    \E s \in Conns : \E k \in 1..Len(gsReqs[s]) :
        /\ gsReqs[s][k].Type = "FileChecksum"
        /\ gsReqs[s][k].Filename = path

C11_CommitAfterFileOk == \A r \in dbRows : ChecksumReceived(r.path)

\* the record of a file is in the table and would answer a later query with
\* "exists", although the writer received nothing but the file's metadata
\* and the reader's session ended with an error
C11_CommittedOnMetadata ==
    \E f \in GrpcFileInfos :
        /\ gFiles[1] = <<f>>
        /\ gcErr[1] = "err"
        /\ Len(gsReqs[1]) = 1
        /\ gsReqs[1][1].Type = "FileInfo"
        /\ WriterFileExists(dbRows, f)

(***************************************************************************)
(* SpecGrpcCtx: a run of the reader with one stream of files, when the     *)
(* timeout of the stream's context may pass at any moment of its session   *)
(***************************************************************************)
GrpcCtxInit ==
    /\ GrpcInit
    /\ gFiles[2] = <<>>

GrpcCtxNext ==
    \E s \in Conns :
        \/ GcOpen(s) \/ GcSend(s) \/ GcCloseSend(s) \/ GcRecv(s)
        \/ GsRecv(s) \/ GsRecvEnd(s) \/ GsDecide(s)
        \/ GcDeadline(s)

InitGrpcCtx == GrpcCtxInit /\ DBIdle /\ SplitIdle /\ CoordIdle /\ LineIdle
        /\ ChunkIdle
        /\ ConcIdle /\ ProtoIdle /\ StoreIdle /\ CrcIdle /\ BufIdle
        /\ CountIdle /\ ShutIdle /\ LogIdle /\ BatchIdle /\ MetaIdle
        /\ DestIdle

SpecGrpcCtx == InitGrpcCtx /\ [][GrpcCtxNext]_vars

(***************************************************************************)
(* C14: the context deadline governs the whole client session: once the    *)
(* stream's context is done, the session sends no further request,         *)
(* processStream returns an error to the coordinator, and the stream is    *)
(* released (the writer's handler of that stream ends with an error).      *)
(***************************************************************************)
C14_Returned(s) ==
    (CtxDone(s) /\ gcPc[s] = "done") =>
        /\ gcErr[s] = "err"
        /\ gsPc[s] = "done" => gsRet[s] = "err"

C14_NoSendAfterDone(s) ==
    CtxDone(s) => (gcSent'[s] = gcSent[s] /\ Len(gReq'[s]) <= Len(gReq[s]))

MaxPeerLines == 2

GoodStartLine == <<"START_STREAM", ":", "j", ":", "1">>
FileLineOk ==
    <<"FILE", ":", "f", ";", "1", ";", "2", ";", "3", ";", "4", ";", "5", ";",
      "6", ";", "7", ";", "p">>
\* eight fields instead of nine
FileLineShort ==
    <<"FILE", ":", "f", ";", "1", ";", "2", ";", "3", ";", "4", ";", "5", ";",
      "6", ";", "7">>
\* a size that is no number
FileLineBadSize ==
    <<"FILE", ":", "f", ";", "x", ";", "2", ";", "3", ";", "4", ";", "5", ";",
      "6", ";", "7", ";", "p">>
FileLineEmpty == <<"FILE", ":">>

PeerLines ==
    {BatchLineA, FileLineOk, FileLineShort, FileLineBadSize, FileLineEmpty,
     CloseLine}

PeerInit ==
    /\ ServerStart
    /\ srvHandler \in {"batch", "file"}
    /\ peerPc = [c \in Conns |-> IF c = 1 THEN "connect" ELSE "off"]
    /\ \E body \in SeqsUpTo(PeerLines, MaxPeerLines) :
          peerScript = [c \in Conns |->
                           IF c = 1 THEN <<GoodStartLine>> \o body ELSE <<>>]
    /\ ClientOff

PeerSpecNext == \E c \in Conns : ServerNext(c) \/ PeerNext(c)

InitPeer == PeerInit /\ SplitIdle /\ DBIdle /\ CoordIdle /\ GrpcIdle
        /\ ChunkIdle
        /\ ConcIdle /\ ProtoIdle /\ StoreIdle /\ CrcIdle /\ BufIdle
        /\ CountIdle /\ ShutIdle /\ LogIdle /\ BatchIdle /\ MetaIdle
        /\ DestIdle

SpecPeer == InitPeer /\ [][PeerSpecNext]_vars

(***************************************************************************)
(* C12: the session state of a connection lives exactly as long as the     *)
(* connection: for every connection whose handshake succeeded, when the    *)
(* connection ends for any reason (CLOSE, disconnect, read error, or an    *)
(* error returned by OnMessage) OnConnectionEnd has run exactly once and   *)
(* the connection's entry is no longer in the handler's streams map.       *)
(***************************************************************************)
C12_EndRunsOnce ==
    \A c \in Conns :
        (srvStart[c] = "ok" /\ srvPc[c] = "closed") =>
            /\ srvEnded[c] = 1
            /\ srvConnId[c] \notin DOMAIN hStreams

\* what the code does keep: OnConnectionEnd never runs twice, and after it
\* has run the entry is gone
C12_EndAtMostOnce ==
    \A c \in Conns :
        /\ srvEnded[c] <= 1
        /\ srvEnded[c] = 1 => srvConnId[c] \notin DOMAIN hStreams

\* OnMessage returned an error for a FILE: message without payload:
\* handleConnection returned, OnConnectionEnd did not run and the entry of
\* the connection is still in the map
C12_LeakedOnError ==
    /\ srvStart[1] = "ok"
    /\ srvPc[1] = "closed"
    /\ srvMsgs[1] = <<FileLineEmpty>>
    /\ srvEnded[1] = 0
    /\ srvConnId[1] \in DOMAIN hStreams

(***************************************************************************)
(* C13: closing is terminal: once the server has read a CLOSE line on a    *)
(* connection it passes no further message of that connection to           *)
(* OnMessage and sends no further response on it, and the client sends     *)
(* CLOSE only after the response to its last request has been received.    *)
(***************************************************************************)
\* the server takes a CLOSE line off connection c in this step
ReadsClose(c) ==
    /\ srvPc[c] = "loop"
    /\ lnC2S[c] # <<>>
    /\ TrimSpace(Head(lnC2S[c])) = CloseLine
    /\ Len(lnC2S'[c]) < Len(lnC2S[c])

C13_Server(c) ==
    (ReadsClose(c) \/ srvPc[c] = "closed") =>
        /\ srvPc'[c] = "closed"
        /\ srvMsgs'[c] = srvMsgs[c]
        /\ srvSent'[c] = srvSent[c]

\* Process of connection c panics in this step
PanicsAt(c) ==
    /\ cliPc[c] = "process"
    /\ cliI[c] < Len(lnFiles[c])
    /\ BatchEnd(cliI[c], lnBatchSize, Len(lnFiles[c])) < cliI[c]

\* Process of connection c ends in this step: its deferred CloseStream
\* writes CLOSE
SendsClose(c) ==
    /\ cliPc[c] \in {"process", "batchWait"}
    /\ cliPc'[c] = "done"
    /\ (lnResult = "none" /\ lnResult' = "panic") => PanicsAt(c)

\* the requests of connection c whose response Process has not received
Unanswered(c) == Len(cliReqs[c]) - Len(cliAcks[c])

C13_Client(c) == SendsClose(c) => Unanswered(c)' = 0

C13_ClosingTerminal ==
    [][\A c \in Conns : C13_Server(c) /\ C13_Client(c)]_vars

\* the part the server keeps
C13_ServerTerminal == [][\A c \in Conns : C13_Server(c)]_vars

\* the server died of the concurrent map access while the batch of
\* connection 1 was unanswered: the read of the response failed and Process
\* sent CLOSE with its request still open
C13_CloseWhilePending ==
    /\ srvFatal
    /\ cliPc[1] = "done"
    /\ cliErr[1] = "processing failed"
    /\ lnCliEnd[1] = "closed"
    /\ Unanswered(1) = 1

(***************************************************************************)
(* Concurrent writers of the files table (TestConcurrentWrites):           *)
(* numGoroutines goroutines add filesPerGoroutine files each, file         *)
(* goroutineID*filesPerGoroutine + j in turn j, all under one host; the    *)
(* caller waits for them and then asks FileExists about every file.  An    *)
(* INSERT is one statement of the database and takes effect at once.       *)
(***************************************************************************)
MaxGoroutines == 3
MaxFilesPerGoroutine == 2

PerfTestHost == "perf-test-host"

\* its path differs from the path of every other id; the times go back
\* with the id (minutes for ModTime, hours for CTime)
createPerfTestFileInfo(id) ==
    [Path |-> <<"/test/path/file_", id, ".txt">>,
     ModTime |-> 0 - id,
     CTime |-> 0 - 60 * id]

ConcInit ==
    /\ cwN \in 1..MaxGoroutines
    /\ cwPer \in 1..MaxFilesPerGoroutine
    /\ cwJ = [g \in 0..(cwN - 1) |-> 0]
    /\ cwErrors = <<>>
    /\ cwPc = "run"
    /\ cwMissing = {}
    /\ dbRows = {}
    /\ dbCall = [op |-> "none"]
    /\ dbRet = [op |-> "none"]

exceptConc == <<splitVars, dbCall, dbRet, coVars, lineVars, grpcVars,
        chunkVars, protoVars, storeVars, crcVars, bufVars, countVars,
        shutVars, logVars, batchVars, metaVars, destVars>>

\* one turn of the loop of goroutine g: db.AddFile, the error collected
CwAddFile(g) ==
    /\ cwPc = "run"
    /\ cwJ[g] < cwPer
    /\ \E backupTime \in BackupTimes :
           LET fileID == g * cwPer + cwJ[g]
               res == AddFile(dbRows, createPerfTestFileInfo(fileID),
                              PerfTestHost, backupTime)
           IN  /\ dbRows' = res.rows
               /\ cwErrors' = IF res.err THEN Append(cwErrors, fileID)
                                         ELSE cwErrors
    /\ cwJ' = [cwJ EXCEPT ![g] = @ + 1]
    /\ UNCHANGED <<cwN, cwPer, cwPc, cwMissing>>
    /\ UNCHANGED exceptConc

\* wg.Wait() returns when every goroutine is done; errors end the run
CwWait ==
    /\ cwPc = "run"
    /\ \A g \in DOMAIN cwJ : cwJ[g] = cwPer
    /\ cwPc' = IF Len(cwErrors) > 0 THEN "fatal" ELSE "waited"
    /\ UNCHANGED <<cwN, cwPer, cwJ, cwErrors, cwMissing, dbRows>>
    /\ UNCHANGED exceptConc

\* the loop over all files: FileExists of each
CwVerify ==
    /\ cwPc = "waited"
    /\ cwMissing' =
           {i \in 0..(cwN * cwPer - 1) :
               LET fileInfo == createPerfTestFileInfo(i)
               IN  ~FileExists(dbRows, fileInfo.Path, PerfTestHost,
                               fileInfo.ModTime, fileInfo.CTime)}
    /\ cwPc' = "verified"
    /\ UNCHANGED <<cwN, cwPer, cwJ, cwErrors, dbRows>>
    /\ UNCHANGED exceptConc

ConcNext ==
    \/ \E g \in DOMAIN cwJ : CwAddFile(g)
    \/ CwWait
    \/ CwVerify

InitConc == ConcInit /\ SplitIdle /\ CoordIdle /\ LineIdle /\ GrpcIdle
        /\ ChunkIdle /\ ProtoIdle /\ StoreIdle /\ CrcIdle /\ BufIdle
        /\ CountIdle /\ ShutIdle /\ LogIdle /\ BatchIdle /\ MetaIdle
        /\ DestIdle

SpecConc == InitConc /\ [][ConcNext]_vars

(***************************************************************************)
(* C15: when several goroutines call AddFile concurrently for pairwise     *)
(* distinct files, every call succeeds, and afterwards FileExists reports  *)
(* every added file present: in every interleaving no call has returned    *)
(* an error, every file a goroutine has added so far is in the table and   *)
(* found by FileExists, and the check after wg.Wait() misses no file.      *)
(***************************************************************************)
CwAdded == {i \in 0..(cwN * cwPer - 1) : i % cwPer < cwJ[i \div cwPer]}

C15_ConcurrentAddFile ==
    /\ cwErrors = <<>>
    /\ cwPc # "fatal"
    /\ \A i \in CwAdded :
           LET fileInfo == createPerfTestFileInfo(i)
           IN  /\ FileExists(dbRows, fileInfo.Path, PerfTestHost,
                             fileInfo.ModTime, fileInfo.CTime)
               /\ Cardinality({r \in dbRows : r.path = fileInfo.Path}) = 1
    /\ Cardinality(dbRows) = Cardinality(CwAdded)
    /\ cwPc = "verified" => cwMissing = {}

\* three goroutines have added two files each, the turns of different
\* goroutines under one backup time, and the check has been made
C15_Witness ==
    /\ cwPc = "verified"
    /\ cwN = MaxGoroutines
    /\ cwPer = MaxFilesPerGoroutine
    /\ Cardinality(dbRows) = MaxGoroutines * MaxFilesPerGoroutine
    /\ \E r1 \in dbRows, r2 \in dbRows :
           r1.path # r2.path /\ r1.backup_time = r2.backup_time

(***************************************************************************)
(* wfs.FileDB, the operations that write the files table: AddFile and      *)
(* UpdateFile (FileExists and GetFile are SELECT statements)               *)
(***************************************************************************)
\* the columns of CREATE TABLE files
FilesColumnsWithHash ==
    {"id", "path", "name", "size", "mode", "owner", "group_id", "modtime",
     "access_time", "ctime", "acl", "source_host", "backup_time", "hash",
     "created_at", "updated_at"}

FilesColumns ==
    {"id", "path", "name", "size", "mode", "owner", "group_id", "modtime",
     "access_time", "ctime", "acl", "source_host", "backup_time",
     "created_at", "updated_at"}

\* the columns the UPDATE statement names in SET and in WHERE
UpdateFileColumns ==
    {"name", "size", "mode", "owner", "group_id", "modtime", "access_time",
     "ctime", "acl", "hash", "updated_at", "path", "source_host",
     "backup_time"}

\* UPDATE files SET ..., modtime = ?, ..., ctime = ?, ..., hash = ?, ...
\* WHERE path = ? AND source_host = ? AND backup_time = ?
\* db.Exec fails on a column the table does not have; no row affected is
\* an error as well
UpdateFile(rows, path, host, backupTime, fileInfo) ==
    LET hit == {r \in rows : /\ r.path = path /\ r.source_host = host
                             /\ r.backup_time = backupTime}
    IN  IF ~(UpdateFileColumns \subseteq FilesColumns)
        THEN [rows |-> rows, err |-> TRUE]
        ELSE IF hit = {}
        THEN [rows |-> rows, err |-> TRUE]
        ELSE [rows |-> (rows \ hit) \cup
                         {[r EXCEPT !.modtime = fileInfo.ModTime,
                                    !.ctime = fileInfo.CTime] : r \in hit},
              err |-> FALSE]

CallUpdateFile ==
    \E path \in Paths, host \in Hosts, backupTime \in BackupTimes,
       fileInfo \in FileInfos :
        LET res == UpdateFile(dbRows, path, host, backupTime, fileInfo)
            hit == {r \in dbRows : /\ r.path = path /\ r.source_host = host
                                   /\ r.backup_time = backupTime}
        IN  /\ dbRows' = res.rows
            \* the call: whether a record has its key, and whether the
            \* values it carries differ from the stored ones
            /\ dbCall' = [op |-> "UpdateFile", matched |-> hit # {},
                          differs |-> \E r \in hit :
                                         \/ r.modtime # fileInfo.ModTime
                                         \/ r.ctime # fileInfo.CTime]
            /\ dbRet' = [op |-> "UpdateFile", err |-> res.err]
            /\ UNCHANGED exceptDB

HistNext == CallAddFile \/ CallUpdateFile

InitHist == DBInit /\ SplitIdle /\ CoordIdle /\ LineIdle /\ GrpcIdle
        /\ ChunkIdle
        /\ ConcIdle /\ ProtoIdle /\ StoreIdle /\ CrcIdle /\ BufIdle
        /\ CountIdle /\ ShutIdle /\ LogIdle /\ BatchIdle /\ MetaIdle
        /\ DestIdle

SpecHist == InitHist /\ [][HistNext]_vars

(***************************************************************************)
(* C16: the history of file records is append-only.  No operation of the   *)
(* store changes the stored fields of a record or removes a record; an     *)
(* AddFile of a (path, host) that is already stored, under a backup time   *)
(* no record of that (path, host) has, adds one further record and keeps   *)
(* the others; and two records never share (path, host, backup time).      *)
(***************************************************************************)
SameKey(r1, r2) ==
    /\ r1.path = r2.path
    /\ r1.source_host = r2.source_host
    /\ r1.backup_time = r2.backup_time

C16_KeysUnique == \A r1 \in dbRows, r2 \in dbRows : SameKey(r1, r2) => r1 = r2

C16_AddsFurther ==
    \A fileInfo \in FileInfos, host \in Hosts, backupTime \in BackupTimes :
        LET res == AddFile(dbRows, fileInfo, host, backupTime)
        IN  (\A r \in dbRows : ~(/\ r.path = fileInfo.Path
                                 /\ r.source_host = host
                                 /\ r.backup_time = backupTime))
                => /\ ~res.err
                   /\ dbRows \subseteq res.rows
                   /\ Cardinality(res.rows) = Cardinality(dbRows) + 1
                   /\ \E r \in res.rows \ dbRows :
                          /\ r.path = fileInfo.Path
                          /\ r.source_host = host
                          /\ r.backup_time = backupTime

C16_RecordsKept == dbRows \subseteq dbRows'

MaxFileKiB == 1100      \* sizes of the files chunked

\* the chunk size of the design: 512KB
ChunkSizeKiB == 512

calculateChecksum(data) == <<"blake3", data.from, data.to>>

\* os.ReadFile gives the whole file; one chunk holds all of it
ChunkFile(size, readErr) ==
    IF readErr
    THEN [chunks |-> <<>>, err |-> TRUE]
    ELSE LET data == [from |-> 0, to |-> size]
         IN  [chunks |-> <<[Data |-> data,
                            Checksum |-> calculateChecksum(data)]>>,
              err |-> FALSE]

ChunkInit ==
    /\ ckSize \in 0..MaxFileKiB
    /\ ckReadErr \in BOOLEAN
    /\ ckRet = [chunks |-> <<>>, err |-> FALSE]
    /\ ckPc = "call"

exceptChunk == <<splitVars, dbVars, coVars, lineVars, grpcVars, concVars,
        protoVars, storeVars, crcVars, bufVars, countVars, shutVars, logVars,
        batchVars, metaVars, destVars>>

CallChunkFile ==
    /\ ckPc = "call"
    /\ ckRet' = ChunkFile(ckSize, ckReadErr)
    /\ ckPc' = "done"
    /\ UNCHANGED <<ckSize, ckReadErr>>
    /\ UNCHANGED exceptChunk

ChunkNext == CallChunkFile

InitChunk == ChunkInit /\ SplitIdle /\ DBIdle /\ CoordIdle /\ LineIdle
        /\ GrpcIdle /\ ConcIdle /\ ProtoIdle /\ StoreIdle /\ CrcIdle /\ BufIdle
        /\ CountIdle /\ ShutIdle /\ LogIdle /\ BatchIdle /\ MetaIdle
        /\ DestIdle

SpecChunk == InitChunk /\ [][ChunkNext]_vars

(***************************************************************************)
(* C17: every chunk ChunkFile produces for a file is a contiguous range    *)
(* of the file's bytes no longer than the maximum chunk size (512 KiB),    *)
(* and the chunks in order cover the file exactly once, with no gap and    *)
(* no overlap, whatever the size of the file.                              *)
(***************************************************************************)
ChunkLen(c) == c.Data.to - c.Data.from

ChunksCover(chunks, size) ==
    /\ \A i \in 1..Len(chunks) : chunks[i].Data.from <= chunks[i].Data.to
    /\ \A i \in 1..(Len(chunks) - 1) :
           chunks[i].Data.to = chunks[i + 1].Data.from
    /\ IF chunks = <<>> THEN size = 0
       ELSE chunks[1].Data.from = 0 /\ chunks[Len(chunks)].Data.to = size

C17_ChunksBoundedCover ==
    (ckPc = "done" /\ ~ckRet.err) =>
        /\ \A i \in 1..Len(ckRet.chunks) :
               ChunkLen(ckRet.chunks[i]) <= ChunkSizeKiB
        /\ ChunksCover(ckRet.chunks, ckSize)

\* the part of the claim that holds: the chunks cover the file exactly once
C17_ChunksCover ==
    (ckPc = "done" /\ ~ckRet.err) => ChunksCover(ckRet.chunks, ckSize)

\* a file of more than 512 KiB has been chunked
C17_BigFileChunked ==
    /\ ckPc = "done"
    /\ ~ckRet.err
    /\ ckSize > ChunkSizeKiB
    /\ \E i \in 1..Len(ckRet.chunks) :
           ChunkLen(ckRet.chunks[i]) > ChunkSizeKiB

(***************************************************************************)
(* The chunked backup protocol (design overview and sequence diagram):     *)
(* one session of a sender (brfs) and a receiver (bwfs).  For each file    *)
(* the sender calls SendFileMetadata; for a file the receiver wants it     *)
(* sends the digests of its chunks in batches, the chunks the receiver     *)
(* asks for one by one, and the checksum of the file.  A message is        *)
(* [from, type, file, body]; a chunk is known by its digest, and the       *)
(* bytes that arrive are known by the digest the receiver computes.        *)
(***************************************************************************)
MaxProtoChunks == 2     \* chunks of one file
ProtoFileIds == {1, 2}  \* at most two files in a session
Digests == {"d1", "d2"}
CorruptDigest == "corrupt"  \* the digest of bytes damaged on the way

Msg(from, type, file, body) ==
    [from |-> from, type |-> type, file |-> file, body |-> body]

\* SendFileMetadata after stream.SendMessage: sendErr is the error of
\* SendMessage, response the line it returned
SendFileMetadataSwapped(response, sendErr) ==
    IF sendErr THEN [fileNeeded |-> FALSE, err |-> TRUE]
    ELSE IF response = "SEND_FILE" THEN [fileNeeded |-> FALSE, err |-> FALSE]
    ELSE IF response = "SKIP_FILE" THEN [fileNeeded |-> TRUE, err |-> FALSE]
    ELSE [fileNeeded |-> FALSE, err |-> TRUE]

SendFileMetadata(response, sendErr) ==
    IF sendErr THEN [fileNeeded |-> FALSE, err |-> TRUE]
    ELSE IF response = "SEND_FILE" THEN [fileNeeded |-> TRUE, err |-> FALSE]
    ELSE IF response = "SKIP_FILE" THEN [fileNeeded |-> FALSE, err |-> FALSE]
    ELSE [fileNeeded |-> FALSE, err |-> TRUE]

\* a reply to FILE: that is neither SEND_FILE nor SKIP_FILE: the FILE_OK
\* of the receiver that takes one FILE: message per file
OtherFileReplies == {"FILE_OK"}

RECURSIVE ChunksNeededAcc(_, _)
ChunksNeededAcc(digests, index) ==
    IF digests = <<>> THEN <<>>
    ELSE LET rest == ChunksNeededAcc(Tail(digests),
                                     index \cup {Head(digests)})
         IN  IF Head(digests) \in index THEN rest
             ELSE <<Head(digests)>> \o rest

\* a receiver that asks for every chunk of the batch
ChunksNeededAll(digests, index) == digests

\* the digests of a batch without a ChunkRecord, each once, in the order
\* of the batch
ChunksNeeded(digests, index) == ChunksNeededAcc(digests, index)

\* transmissions of one chunk: the first and one resend
ChunkTransmissions == 2

Min(a, b) == IF a < b THEN a ELSE b

ProtoSend(m) == pMsg' = m /\ pLog' = Append(pLog, m)
ProtoReply(m) ==
    /\ pMsg' = NoMsg
    /\ pReply' = m
    /\ pLog' = Append(pLog, m)

ProtoInit ==
    /\ \E n \in ProtoFileIds :
           pFiles \in [1..n -> SeqsUpTo(Digests, MaxProtoChunks)]
    /\ pBatch \in 1..MaxProtoChunks
    /\ pPc = "ReadyForFile"
    /\ pI = 1
    /\ pOff = 0
    /\ pNeed = <<>>
    /\ pTries = 0
    /\ pMsg = NoMsg
    /\ pReply = NoMsg
    /\ pLog = <<>>
    /\ pIndex \in SUBSET Digests
    /\ pIdx0 = [i \in DOMAIN pFiles |-> {}]
    /\ pCommitted = {}
    /\ pOutcome = [i \in DOMAIN pFiles |-> "none"]
    /\ pMeta = [i \in DOMAIN pFiles |->
                   [reply |-> "none", fileNeeded |-> FALSE, err |-> FALSE]]

exceptProto == <<splitVars, dbVars, coVars, lineVars, grpcVars, concVars,
        chunkVars, storeVars, crcVars, bufVars, countVars, shutVars, logVars,
        batchVars, metaVars, destVars>>

\* the session goes on to the next file
NextFile ==
    /\ pI' = pI + 1
    /\ pPc' = "ReadyForFile"
    /\ pOff' = 0
    /\ pNeed' = <<>>
    /\ pTries' = 0

\* ---- the sender -----------------------------------------------------------
\* SendFileMetadata, up to stream.SendMessage: the FILE: message goes out,
\* or SendMessage fails and the session ends
PsSendFile ==
    /\ pPc = "ReadyForFile"
    /\ pI <= Len(pFiles)
    /\ \E sendErr \in BOOLEAN :
           IF sendErr
           THEN /\ pMeta' = [pMeta EXCEPT ![pI] =
                                [reply |-> "none"] @@ SendFileMetadata("", TRUE)]
                /\ pPc' = "failed"
                /\ UNCHANGED <<pMsg, pLog>>
           ELSE /\ ProtoSend(Msg("sender", "FILE", pI, <<>>))
                /\ pPc' = "AwaitFileReply"
                /\ UNCHANGED pMeta
    /\ UNCHANGED <<pFiles, pBatch, pI, pOff, pNeed, pTries, pReply, pIndex,
                   pIdx0, pCommitted, pOutcome>>
    /\ UNCHANGED exceptProto

\* SendFileMetadata, the switch on the response, and what the sender does
\* with its result
PsFileReply ==
    /\ pPc = "AwaitFileReply"
    /\ pReply # NoMsg
    /\ LET res == SendFileMetadata(pReply.type, FALSE)
       IN  /\ pMeta' = [pMeta EXCEPT ![pI] = [reply |-> pReply.type] @@ res]
           /\ IF res.err
              THEN /\ pPc' = "failed"
                   /\ UNCHANGED <<pI, pOff, pNeed, pTries, pOutcome>>
              ELSE IF res.fileNeeded
              THEN /\ pPc' = "AwaitingHashBatch"
                   /\ pOff' = 0
                   /\ UNCHANGED <<pI, pNeed, pTries, pOutcome>>
              ELSE /\ pOutcome' = [pOutcome EXCEPT ![pI] = "skipped"]
                   /\ NextFile
    /\ pReply' = NoMsg
    /\ UNCHANGED <<pFiles, pBatch, pMsg, pLog, pIndex, pIdx0, pCommitted>>
    /\ UNCHANGED exceptProto

\* HASHES: the digests of the next batch of chunks
PsSendHashes ==
    /\ pPc = "AwaitingHashBatch"
    /\ pOff < Len(pFiles[pI])
    /\ ProtoSend(Msg("sender", "HASHES", pI,
                     Slice(pFiles[pI], pOff,
                           Min(pOff + pBatch, Len(pFiles[pI])))))
    /\ pPc' = "AwaitNeed"
    /\ UNCHANGED <<pFiles, pBatch, pI, pOff, pNeed, pTries, pReply, pIndex,
                   pIdx0, pCommitted, pOutcome, pMeta>>
    /\ UNCHANGED exceptProto

\* NEED: the chunks asked for are sent; SKIP_ALL: on to the next batch
PsNeedReply ==
    /\ pPc = "AwaitNeed"
    /\ pReply # NoMsg
    /\ IF pReply.type = "NEED"
       THEN /\ pNeed' = pReply.body
            /\ pTries' = 0
            /\ pPc' = "SendingChunks"
            /\ UNCHANGED pOff
       ELSE /\ pOff' = Min(pOff + pBatch, Len(pFiles[pI]))
            /\ pPc' = "AwaitingHashBatch"
            /\ UNCHANGED <<pNeed, pTries>>
    /\ pReply' = NoMsg
    /\ UNCHANGED <<pFiles, pBatch, pI, pMsg, pLog, pIndex, pIdx0, pCommitted,
                   pOutcome, pMeta>>
    /\ UNCHANGED exceptProto

\* CHUNK: the data of one requested chunk; the bytes may be damaged on
\* the way
PsSendChunk ==
    /\ pPc = "SendingChunks"
    /\ pNeed # <<>>
    /\ \E received \in {Head(pNeed), CorruptDigest} :
           ProtoSend(Msg("sender", "CHUNK", pI,
                         [digest |-> Head(pNeed), received |-> received]))
    /\ pTries' = pTries + 1
    /\ pPc' = "AwaitChunkAck"
    /\ UNCHANGED <<pFiles, pBatch, pI, pOff, pNeed, pReply, pIndex, pIdx0,
                   pCommitted, pOutcome, pMeta>>
    /\ UNCHANGED exceptProto

\* CHUNK_OK: the next chunk, or the next batch; CHUNK_ERROR: the chunk is
\* sent again once, a second error fails the file, and the session either
\* goes on to the next file or ends
PsChunkReply ==
    /\ pPc = "AwaitChunkAck"
    /\ pReply # NoMsg
    /\ IF pReply.type = "CHUNK_OK"
       THEN /\ pNeed' = Tail(pNeed)
            /\ pTries' = 0
            /\ IF Tail(pNeed) = <<>>
               THEN /\ pOff' = Min(pOff + pBatch, Len(pFiles[pI]))
                    /\ pPc' = "AwaitingHashBatch"
               ELSE /\ pPc' = "SendingChunks"
                    /\ UNCHANGED pOff
            /\ UNCHANGED <<pI, pOutcome>>
       ELSE IF pTries < ChunkTransmissions
       THEN /\ pPc' = "SendingChunks"
            /\ UNCHANGED <<pI, pOff, pNeed, pTries, pOutcome>>
       ELSE /\ pOutcome' = [pOutcome EXCEPT ![pI] = "failed"]
            /\ \/ NextFile
               \/ /\ pPc' = "failed"
                  /\ UNCHANGED <<pI, pOff, pNeed, pTries>>
    /\ pReply' = NoMsg
    /\ UNCHANGED <<pFiles, pBatch, pMsg, pLog, pIndex, pIdx0, pCommitted,
                   pMeta>>
    /\ UNCHANGED exceptProto

\* FILE_CRC: the checksum of the file, after its last batch
PsSendCrc ==
    /\ pPc = "AwaitingHashBatch"
    /\ pOff >= Len(pFiles[pI])
    /\ ProtoSend(Msg("sender", "FILE_CRC", pI, <<>>))
    /\ pPc' = "AwaitCrcReply"
    /\ UNCHANGED <<pFiles, pBatch, pI, pOff, pNeed, pTries, pReply, pIndex,
                   pIdx0, pCommitted, pOutcome, pMeta>>
    /\ UNCHANGED exceptProto

\* FILE_OK or FILE_CRC_ERROR: on to the next file
PsCrcReply ==
    /\ pPc = "AwaitCrcReply"
    /\ pReply # NoMsg
    /\ pOutcome' = [pOutcome EXCEPT ![pI] =
                       IF pReply.type = "FILE_OK" THEN "ok" ELSE "crc_error"]
    /\ NextFile
    /\ pReply' = NoMsg
    /\ UNCHANGED <<pFiles, pBatch, pMsg, pLog, pIndex, pIdx0, pCommitted,
                   pMeta>>
    /\ UNCHANGED exceptProto

\* Close Stream, when all files are processed
PsClose ==
    /\ pPc = "ReadyForFile"
    /\ pI > Len(pFiles)
    /\ ProtoSend(Msg("sender", "CLOSE", 0, <<>>))
    /\ pPc' = "done"
    /\ UNCHANGED <<pFiles, pBatch, pI, pOff, pNeed, pTries, pReply, pIndex,
                   pIdx0, pCommitted, pOutcome, pMeta>>
    /\ UNCHANGED exceptProto

\* ---- the receiver ---------------------------------------------------------
\* FILE: the receiver needs the file (SEND_FILE) or has it (SKIP_FILE)
PrFile ==
    /\ pMsg.type = "FILE"
    /\ \E fileNeeded \in BOOLEAN :
           /\ ProtoReply(Msg("receiver",
                             IF fileNeeded THEN "SEND_FILE" ELSE "SKIP_FILE",
                             pMsg.file, <<>>))
           /\ pIdx0' = IF fileNeeded THEN [pIdx0 EXCEPT ![pMsg.file] = pIndex]
                       ELSE pIdx0
    /\ UNCHANGED <<pFiles, pBatch, pPc, pI, pOff, pNeed, pTries, pIndex,
                   pCommitted, pOutcome, pMeta>>
    /\ UNCHANGED exceptProto

\* FILE: answered by a receiver that does not follow this protocol
PrFileOther ==
    /\ pMsg.type = "FILE"
    /\ \E r \in OtherFileReplies :
           ProtoReply(Msg("receiver", r, pMsg.file, <<>>))
    /\ UNCHANGED <<pFiles, pBatch, pPc, pI, pOff, pNeed, pTries, pIndex,
                   pIdx0, pCommitted, pOutcome, pMeta>>
    /\ UNCHANGED exceptProto

\* HASHES: NEED with the digests the index lacks, SKIP_ALL if it has all
PrHashes ==
    /\ pMsg.type = "HASHES"
    /\ LET need == ChunksNeeded(pMsg.body, pIndex)
       IN  IF need = <<>>
           THEN ProtoReply(Msg("receiver", "SKIP_ALL", pMsg.file, <<>>))
           ELSE ProtoReply(Msg("receiver", "NEED", pMsg.file, need))
    /\ UNCHANGED <<pFiles, pBatch, pPc, pI, pOff, pNeed, pTries, pIndex,
                   pIdx0, pCommitted, pOutcome, pMeta>>
    /\ UNCHANGED exceptProto

\* a receiver that takes every chunk as valid
ChunkValidAny(chunk) == TRUE

\* CHUNK: the digest of the bytes received is compared with the digest
\* asked for; a chunk that verifies is stored
ChunkValid(chunk) == chunk.received = chunk.digest

PrChunk ==
    /\ pMsg.type = "CHUNK"
    /\ IF ChunkValid(pMsg.body)
       THEN /\ pIndex' = pIndex \cup {pMsg.body.digest}
            /\ ProtoReply(Msg("receiver", "CHUNK_OK", pMsg.file, <<>>))
       ELSE /\ UNCHANGED pIndex
            /\ ProtoReply(Msg("receiver", "CHUNK_ERROR", pMsg.file, <<>>))
    /\ UNCHANGED <<pFiles, pBatch, pPc, pI, pOff, pNeed, pTries, pIdx0,
                   pCommitted, pOutcome, pMeta>>
    /\ UNCHANGED exceptProto

\* FILE_CRC: the file is verified and committed (FILE_OK), or its
\* checksum is wrong (FILE_CRC_ERROR)
PrCrc ==
    /\ pMsg.type = "FILE_CRC"
    /\ \E correct \in BOOLEAN :
           IF correct
           THEN /\ pCommitted' = pCommitted \cup {pMsg.file}
                /\ ProtoReply(Msg("receiver", "FILE_OK", pMsg.file, <<>>))
           ELSE /\ UNCHANGED pCommitted
                /\ ProtoReply(Msg("receiver", "FILE_CRC_ERROR", pMsg.file,
                                  <<>>))
    /\ UNCHANGED <<pFiles, pBatch, pPc, pI, pOff, pNeed, pTries, pIndex,
                   pIdx0, pOutcome, pMeta>>
    /\ UNCHANGED exceptProto

ProtoNext ==
    \/ PsSendFile
    \/ PsFileReply
    \/ PsSendHashes
    \/ PsNeedReply
    \/ PsSendChunk
    \/ PsChunkReply
    \/ PsSendCrc
    \/ PsCrcReply
    \/ PsClose
    \/ PrFile
    \/ PrFileOther
    \/ PrHashes
    \/ PrChunk
    \/ PrCrc

InitProto == ProtoInit /\ SplitIdle /\ DBIdle /\ CoordIdle /\ LineIdle
        /\ GrpcIdle /\ ConcIdle /\ ChunkIdle /\ StoreIdle /\ CrcIdle /\ BufIdle
        /\ CountIdle /\ ShutIdle /\ LogIdle /\ BatchIdle /\ MetaIdle
        /\ DestIdle

SpecProto == InitProto /\ [][ProtoNext]_vars

(***************************************************************************)
(* C18: in the ReadyForFile exchange the sender transmits one file         *)
(* descriptor and acts only on the receiver's decision.  SendFileMetadata  *)
(* reports "needed" exactly on SEND_FILE, "not needed" exactly on          *)
(* SKIP_FILE and an error on any other reply; after SKIP_FILE the session  *)
(* is ready for the next file, and no hash batch, chunk or checksum of     *)
(* the skipped file is ever sent.                                          *)
(***************************************************************************)
LogOf(file, types) ==
    {k \in 1..Len(pLog) : pLog[k].file = file /\ pLog[k].type \in types}

C18_Reports(i) ==
    pMeta[i].reply # "none" =>
        /\ (pMeta[i].fileNeeded /\ ~pMeta[i].err)
               <=> pMeta[i].reply = "SEND_FILE"
        /\ (~pMeta[i].fileNeeded /\ ~pMeta[i].err)
               <=> pMeta[i].reply = "SKIP_FILE"
        /\ pMeta[i].err <=> pMeta[i].reply \notin {"SEND_FILE", "SKIP_FILE"}

C18_ActsOnDecision(i) ==
    /\ Cardinality(LogOf(i, {"FILE"})) <= 1
    /\ LogOf(i, {"HASHES", "CHUNK", "FILE_CRC"}) # {}
           => pMeta[i].reply = "SEND_FILE"
    /\ pMeta[i].reply = "SKIP_FILE"
           => /\ pOutcome[i] = "skipped"
              /\ LogOf(i, {"HASHES", "CHUNK", "FILE_CRC"}) = {}

C18_ReadyAfterSkip ==
    (pPc = "AwaitFileReply" /\ pReply.type = "SKIP_FILE")
        => (pPc' = "ReadyForFile" /\ pI' = pI + 1)

C18_FileDecision ==
    /\ [](\A i \in DOMAIN pFiles : C18_Reports(i) /\ C18_ActsOnDecision(i))
    /\ [][C18_ReadyAfterSkip]_vars

\* the first file was skipped, and the session went on to the second
\* file, got SEND_FILE for it and sent a chunk of it
C18_Witness ==
    /\ Len(pFiles) = 2
    /\ pMeta[1].reply = "SKIP_FILE"
    /\ pOutcome[1] = "skipped"
    /\ pMeta[2].reply = "SEND_FILE"
    /\ pMeta[2].fileNeeded
    /\ LogOf(2, {"CHUNK"}) # {}

(***************************************************************************)
(* C19: chunk corruption is never silently accepted.  A chunk whose        *)
(* received bytes fail digest verification is answered with CHUNK_ERROR    *)
(* and stores nothing; after the first CHUNK_ERROR the same chunk is sent  *)
(* again, once; if the resent chunk verifies it is stored and answered     *)
(* with CHUNK_OK; if it fails again nothing more of the file is sent, the  *)
(* file ends as failed and uncommitted, and the index never holds a        *)
(* record of corrupted bytes.                                              *)
(***************************************************************************)
IsChunk(k) == k \in 1..Len(pLog) /\ pLog[k].type = "CHUNK"
IsChunkError(k) == k \in 1..Len(pLog) /\ pLog[k].type = "CHUNK_ERROR"
Damaged(k) == IsChunk(k) /\ pLog[k].body.received # pLog[k].body.digest

\* the answer to every chunk that has been answered
C19_Answered(k) ==
    (IsChunk(k) /\ k < Len(pLog)) =>
        /\ Damaged(k) <=> pLog[k + 1].type = "CHUNK_ERROR"
        /\ ~Damaged(k) <=> pLog[k + 1].type = "CHUNK_OK"
        /\ ~Damaged(k) => pLog[k].body.digest \in pIndex

\* what follows a CHUNK_ERROR
C19_Resent(k) ==
    IsChunkError(k) =>
        IF IsChunkError(k - 2)
        THEN \* the resent chunk failed: the end of this file
             /\ \A j \in (k + 1)..Len(pLog) : pLog[j].file # pLog[k].file
             /\ pLog[k].file \notin pCommitted
             /\ pReply = NoMsg => pOutcome[pLog[k].file] = "failed"
        ELSE \* the first failure: the same chunk once more
             k < Len(pLog) =>
                 /\ IsChunk(k + 1)
                 /\ pLog[k + 1].file = pLog[k - 1].file
                 /\ pLog[k + 1].body.digest = pLog[k - 1].body.digest

\* the index grows only by the digest of a chunk that verified
C19_StoredVerified ==
    pIndex' # pIndex =>
        /\ pMsg.type = "CHUNK"
        /\ pMsg.body.received = pMsg.body.digest
        /\ pIndex' = pIndex \cup {pMsg.body.digest}

C19_NoSilentCorruption ==
    /\ [](/\ CorruptDigest \notin pIndex
          /\ \A k \in 1..Len(pLog) : C19_Answered(k) /\ C19_Resent(k))
    /\ [][C19_StoredVerified]_vars

\* one chunk failed once and verified when sent again; another failed
\* twice, and its file has failed
C19_Witness ==
    /\ \E k \in 1..Len(pLog) :
           /\ IsChunkError(k)
           /\ ~IsChunkError(k - 2)
           /\ IsChunk(k + 1)
           /\ ~Damaged(k + 1)
           /\ k + 2 <= Len(pLog)
           /\ pLog[k + 2].type = "CHUNK_OK"
    /\ \E k \in 1..Len(pLog) :
           /\ IsChunkError(k)
           /\ IsChunkError(k - 2)
           /\ pOutcome[pLog[k].file] = "failed"
           /\ pLog[k - 1].body.digest \notin pIndex

(***************************************************************************)
(* C20: for a file with K chunks of which M < K digests already exist in   *)
(* the receiver's chunk index, the NEED replies list exactly the K-M       *)
(* missing digests and the sender transmits exactly K-M chunks, one per    *)
(* needed chunk and none for a chunk the receiver already has (a resend    *)
(* after CHUNK_ERROR is the same transmission, not a further chunk); a     *)
(* batch with nothing missing is answered SKIP_ALL and followed by no      *)
(* chunk data.  The files counted are those whose batches are all done.    *)
(***************************************************************************)
\* the digests the NEED replies for a file listed, in order
RECURSIVE NeedListed(_, _)
NeedListed(log, file) ==
    IF log = <<>> THEN <<>>
    ELSE (IF Head(log).type = "NEED" /\ Head(log).file = file
          THEN Head(log).body ELSE <<>>) \o NeedListed(Tail(log), file)

\* the chunks sent for a file, a resend not counted again
ChunksSent(file) ==
    {k \in 1..Len(pLog) :
        IsChunk(k) /\ pLog[k].file = file /\ ~IsChunkError(k - 1)}

BatchesDone(file) == LogOf(file, {"FILE_CRC"}) # {}

\* M: the chunks of the file whose digest was in the index at SEND_FILE
ChunksExisting(file) ==
    {j \in 1..Len(pFiles[file]) : pFiles[file][j] \in pIdx0[file]}

\* the digests of the file the index lacked at SEND_FILE
DigestsMissing(file) ==
    {pFiles[file][j] : j \in 1..Len(pFiles[file])} \ pIdx0[file]

\* SKIP_ALL exactly for a batch with nothing missing, NEED with the
\* missing digests otherwise
C20_BatchReply ==
    pMsg.type = "HASHES" =>
        LET missing == {pMsg.body[j] : j \in 1..Len(pMsg.body)} \ pIndex
        IN  /\ pReply'.type = "SKIP_ALL" <=> missing = {}
            /\ pReply'.type = "NEED" <=> missing # {}
            /\ pReply'.type = "NEED" =>
                   {pReply'.body[j] : j \in 1..Len(pReply'.body)} = missing

C20_NoChunkAfterSkipAll ==
    \A k \in 1..(Len(pLog) - 1) :
        pLog[k].type = "SKIP_ALL" => pLog[k + 1].type # "CHUNK"

C20_OnlyMissing(file) ==
    \A k \in ChunksSent(file) : pLog[k].body.digest \notin pIdx0[file]

C20_CountsChunks(file) ==
    LET K == Len(pFiles[file])
        M == Cardinality(ChunksExisting(file))
    IN  (BatchesDone(file) /\ M < K) =>
            /\ Len(NeedListed(pLog, file)) = K - M
            /\ Cardinality(ChunksSent(file)) = K - M

C20_PartialDedup ==
    /\ [](/\ C20_NoChunkAfterSkipAll
          /\ \A i \in DOMAIN pFiles : C20_OnlyMissing(i) /\ C20_CountsChunks(i))
    /\ [][C20_BatchReply]_vars

\* amended: the digests and the chunks are as many as the distinct
\* digests of the file that the index lacked, each of them listed once
\* and sent once
C20_CountsDigests(file) ==
    BatchesDone(file) =>
        LET listed == NeedListed(pLog, file)
        IN  /\ Len(listed) = Cardinality(DigestsMissing(file))
            /\ {listed[j] : j \in 1..Len(listed)} = DigestsMissing(file)
            /\ Cardinality(ChunksSent(file))
                   = Cardinality(DigestsMissing(file))
            /\ {pLog[k].body.digest : k \in ChunksSent(file)}
                   = DigestsMissing(file)

C20_PartialDedupDistinct ==
    /\ [](/\ C20_NoChunkAfterSkipAll
          /\ \A i \in DOMAIN pFiles : C20_OnlyMissing(i) /\ C20_CountsDigests(i))
    /\ [][C20_BatchReply]_vars

\* a file of two different chunks, one of them in the index when the
\* file began, has had all its batches done and one chunk sent
C20_Witness ==
    \E i \in DOMAIN pFiles :
        /\ BatchesDone(i)
        /\ Len(pFiles[i]) = 2
        /\ pFiles[i][1] # pFiles[i][2]
        /\ Cardinality(ChunksExisting(i)) = 1
        /\ Cardinality(ChunksSent(i)) = 1
        /\ LogOf(i, {"NEED"}) # {}

(***************************************************************************)
(* The chunk index under concurrent sessions: each session sends one       *)
(* batch of digests (HASHES), is told which of them the index lacks        *)
(* (NEED), and sends those chunks one by one (CHUNK), each of which the    *)
(* receiver stores.  Two sessions may be told that the same digest is      *)
(* needed.  The index is the list of its ChunkRecords.                     *)
(***************************************************************************)
MaxStoreBatch == 2      \* digests in the batch of a session

StoredDigests(records) == {records[k].digest : k \in 1..Len(records)}

\* a store that adds a record whether or not the digest has one
StoreChunkAlways(records, digest, session) ==
    Append(records, [digest |-> digest, by |-> session])

\* store-chunk-if-absent, keyed by digest
StoreChunk(records, digest, session) ==
    IF digest \in StoredDigests(records) THEN records
    ELSE Append(records, [digest |-> digest, by |-> session])

StoreInit ==
    /\ \E ds \in SeqsUpTo(Digests, 1) :
           ciRecords = [k \in 1..Len(ds) |-> [digest |-> ds[k], by |-> 0]]
    /\ csBatch \in [Conns -> SeqsUpTo(Digests, MaxStoreBatch)]
    /\ csNeed = [s \in Conns |-> <<>>]
    /\ csPc = [s \in Conns |-> "ask"]

exceptStore == <<splitVars, dbVars, coVars, lineVars, grpcVars, concVars,
        chunkVars, protoVars, crcVars, bufVars, countVars, shutVars, logVars,
        batchVars, metaVars, destVars>>

\* HASHES and its answer: ChunksNeeded on the batch of the session
CsAsk(s) ==
    /\ csPc[s] = "ask"
    /\ csNeed' = [csNeed EXCEPT ![s] =
                     ChunksNeeded(csBatch[s], StoredDigests(ciRecords))]
    /\ csPc' = [csPc EXCEPT ![s] = "store"]
    /\ UNCHANGED <<ciRecords, csBatch>>
    /\ UNCHANGED exceptStore

\* CHUNK: the next needed chunk arrives and is stored
CsStore(s) ==
    /\ csPc[s] = "store"
    /\ csNeed[s] # <<>>
    /\ ciRecords' = StoreChunk(ciRecords, Head(csNeed[s]), s)
    /\ csNeed' = [csNeed EXCEPT ![s] = Tail(@)]
    /\ UNCHANGED <<csBatch, csPc>>
    /\ UNCHANGED exceptStore

\* the batch of the session is done
CsDone(s) ==
    /\ csPc[s] = "store"
    /\ csNeed[s] = <<>>
    /\ csPc' = [csPc EXCEPT ![s] = "done"]
    /\ UNCHANGED <<ciRecords, csBatch, csNeed>>
    /\ UNCHANGED exceptStore

StoreNext == \E s \in Conns : CsAsk(s) \/ CsStore(s) \/ CsDone(s)

InitStore == StoreInit /\ SplitIdle /\ DBIdle /\ CoordIdle /\ LineIdle
        /\ GrpcIdle /\ ConcIdle /\ ChunkIdle /\ ProtoIdle /\ CrcIdle /\ CrcIdle
        /\ BufIdle /\ CountIdle /\ ShutIdle /\ LogIdle /\ BatchIdle /\ MetaIdle
        /\ DestIdle

SpecStore == InitStore /\ [][StoreNext]_vars

(***************************************************************************)
(* C21: chunk storage is idempotent and keyed by digest.  After any        *)
(* sequence of chunk stores by concurrent sessions there is at most one    *)
(* ChunkRecord per digest; storing a digest that is already present        *)
(* changes nothing; and ChunksNeeded never returns a digest that is        *)
(* stored (it returns the digests of the batch that are not).              *)
(***************************************************************************)
C21_OnePerDigest ==
    \A j \in 1..Len(ciRecords), k \in 1..Len(ciRecords) :
        ciRecords[j].digest = ciRecords[k].digest => j = k

C21_StoreIdempotent(s) ==
    (csPc[s] = "store" /\ csNeed'[s] # csNeed[s]) =>
        IF Head(csNeed[s]) \in StoredDigests(ciRecords)
        THEN ciRecords' = ciRecords
        ELSE /\ Len(ciRecords') = Len(ciRecords) + 1
             /\ StoredDigests(ciRecords')
                    = StoredDigests(ciRecords) \cup {Head(csNeed[s])}

C21_NeededNotStored(s) ==
    (csPc[s] = "ask" /\ csPc'[s] = "store") =>
        LET need == {csNeed'[s][k] : k \in 1..Len(csNeed'[s])}
            batch == {csBatch[s][k] : k \in 1..Len(csBatch[s])}
        IN  need = batch \ StoredDigests(ciRecords)

C21_IdempotentStore ==
    /\ []C21_OnePerDigest
    /\ [][\A s \in Conns : C21_StoreIdempotent(s) /\ C21_NeededNotStored(s)]_vars

\* both sessions were told that one digest is needed; one of them has
\* stored it, and the other still has its chunk to send
C21_Witness ==
    \E d \in Digests, s \in Conns, t \in Conns :
        /\ s # t
        /\ \E k \in 1..Len(ciRecords) :
               ciRecords[k].digest = d /\ ciRecords[k].by = s
        /\ csPc[t] = "store"
        /\ csNeed[t] # <<>>
        /\ Head(csNeed[t]) = d

(***************************************************************************)
(* The whole-file checksum: CRC32 (IEEE, reflected) and the combiner of    *)
(* the CRC32s of consecutive chunks.  A 32-bit word is the set of the      *)
(* positions of its 1 bits, 0 the lowest; XOR is the symmetric difference. *)
(***************************************************************************)
MaxCrcBytes == 3        \* bytes of the file

\* the bytes 0x00, 0x01, 0x61, 0xFF
CrcBytes == {{}, {0}, {0, 5, 6}, 0..7}

\* 0xEDB88320
Crc32Poly == {5, 8, 9, 15, 19, 20, 21, 23, 24, 26, 27, 29, 30, 31}
Word32 == 0..31

Xor(a, b) == (a \ b) \cup (b \ a)
ShiftRight1(a) == {b - 1 : b \in a \ {0}}

\* one bit of the register
CrcBitStep(reg) ==
    IF 0 \in reg THEN Xor(ShiftRight1(reg), Crc32Poly) ELSE ShiftRight1(reg)

CrcBits8(reg) ==
    CrcBitStep(CrcBitStep(CrcBitStep(CrcBitStep(
    CrcBitStep(CrcBitStep(CrcBitStep(CrcBitStep(reg))))))))

\* the register after the bytes of data
RECURSIVE CrcRegister(_, _)
CrcRegister(reg, data) ==
    IF data = <<>> THEN reg
    ELSE CrcRegister(CrcBits8(Xor(reg, Head(data))), Tail(data))

\* CRC32 of data: the register starts all ones, the result is inverted
Crc32(data) == Word32 \ CrcRegister(Word32, data)

\* the CRC advanced over len zero bytes, without start value and inversion
RECURSIVE CrcShiftZeros(_, _)
CrcShiftZeros(crc, len) ==
    IF len = 0 THEN crc ELSE CrcShiftZeros(CrcBits8(crc), len - 1)

\* a combiner that leaves out the shift
CrcCombineNoShift(crcA, crcB, lenB) == Xor(crcA, crcB)

\* the CRC32 of A followed by B from crcA, crcB and the length of B
CrcCombine(crcA, crcB, lenB) == Xor(CrcShiftZeros(crcA, lenB), crcB)

\* the chunks of data with the given lengths
RECURSIVE CutChunks(_, _)
CutChunks(data, lens) ==
    IF lens = <<>> THEN <<>>
    ELSE <<Slice(data, 0, Head(lens))>>
             \o CutChunks(Slice(data, Head(lens), Len(data)), Tail(lens))

\* the combiner fed the (CRC32, length) pairs of the chunks in order
RECURSIVE CombineAll(_, _)
CombineAll(crc, pairs) ==
    IF pairs = <<>> THEN crc
    ELSE CombineAll(CrcCombine(crc, Head(pairs).crc, Head(pairs).len),
                    Tail(pairs))

RECURSIVE SumSeq(_)
SumSeq(q) == IF q = <<>> THEN 0 ELSE Head(q) + SumSeq(Tail(q))

CrcInit ==
    /\ crData \in SeqsUpTo(CrcBytes, MaxCrcBytes)
    /\ crLens \in {l \in SeqsUpTo(1..MaxCrcBytes, MaxCrcBytes) :
                      SumSeq(l) = Len(crData)}
    /\ crClient = {}
    /\ crServer = {}
    /\ crPc = "read"

exceptCrc == <<splitVars, dbVars, coVars, lineVars, grpcVars, concVars,
        chunkVars, protoVars, storeVars, bufVars, countVars, shutVars,
        logVars, batchVars, metaVars, destVars>>

\* the client reads the file once and sends FILE_CRC; the server combines
\* the CRC32 and the length of every chunk of the file
CrcTransfer ==
    /\ crPc = "read"
    /\ crClient' = Crc32(crData)
    /\ LET chunks == CutChunks(crData, crLens)
           pairs == [k \in 1..Len(chunks) |->
                        [crc |-> Crc32(chunks[k]), len |-> Len(chunks[k])]]
       IN  crServer' = CombineAll({}, pairs)
    /\ crPc' = "done"
    /\ UNCHANGED <<crData, crLens>>
    /\ UNCHANGED exceptCrc

CrcNext == CrcTransfer

InitCrc == CrcInit /\ SplitIdle /\ DBIdle /\ CoordIdle /\ LineIdle
        /\ GrpcIdle /\ ConcIdle /\ ChunkIdle /\ ProtoIdle /\ StoreIdle
        /\ BufIdle /\ CountIdle /\ ShutIdle /\ LogIdle /\ BatchIdle /\ MetaIdle
        /\ DestIdle

SpecCrc == InitCrc /\ [][CrcNext]_vars

(***************************************************************************)
(* C22: for every byte sequence and every split of it into consecutive     *)
(* chunks, combining the (CRC32, length) pairs of the chunks in order      *)
(* gives exactly the CRC32 of the whole sequence: the checksum the server  *)
(* reconstructs equals the one the client accumulated.                     *)
(***************************************************************************)
C22_CombinerCorrect == crPc = "done" => crServer = crClient

\* CRC32 of the one byte 0x61 is 0xE8B7BE43
C22_KnownValue ==
    Crc32(<<{0, 5, 6}>>) =
        {0, 1, 6, 9, 10, 11, 12, 13, 15, 16, 17, 18, 20, 21, 23, 27, 29, 30, 31}

\* a file of three bytes, not all equal, cut into more than one chunk
C22_Witness ==
    /\ crPc = "done"
    /\ Len(crData) = MaxCrcBytes
    /\ Len(crLens) > 1
    /\ crData[1] # crData[2]
    /\ crServer = crClient
    /\ crClient # {}

(***************************************************************************)
(* C23: two sessions racing on the same file never corrupt the store.  If  *)
(* two streams concurrently submit a file with the same (path, host,       *)
(* modTime) that is not yet stored, then under every interleaving of       *)
(* their FileExists check and AddFile insert exactly one FileRecord of it  *)
(* is created and neither stream fails: the table never holds two records  *)
(* of one (path, host, modTime), a handled file has one, and no handler    *)
(* ends with an error of AddFile.                                          *)
(***************************************************************************)
C23_OneRecord ==
    \A f \in GrpcFileInfos :
        /\ Cardinality(RecordsOf(f)) <= 1
        /\ f \in gHandled => Cardinality(RecordsOf(f)) = 1

\* a handler that ends with an error after the FileExists query does so
\* because its client has gone, not because AddFile failed
C23_NoAddFailure(s) ==
    (gsPc[s] = "decide" /\ gsRet'[s] = "err") => ClientGone(s)

C23_RaceSafe ==
    /\ []C23_OneRecord
    /\ [][\A s \in Conns : C23_NoAddFailure(s)]_vars

\* both streams found the file absent before either inserted it, and the
\* table holds two records of it
C23_TwoRecords ==
    \E f \in GrpcFileInfos :
        /\ f \in gRaced
        /\ gFiles[1] = <<f>>
        /\ gFiles[2] = <<f>>
        /\ Cardinality(RecordsOf(f)) = 2

(***************************************************************************)
(* SpecSend: a client that talks to the server through network.Stream:     *)
(* NewStream (CreateConnection, StartStream), then one Stream.SendMessage  *)
(* per line of its script, each waiting for the response, then             *)
(* CloseStream.  The server runs either OnMessage.                         *)
(***************************************************************************)
MaxSendLines == 3

\* the requests a backup reader sends with Stream.SendMessage
ClientRequests == {BatchLineA, FileLineOk}
SendLines == ClientRequests \cup {FileLineEmpty}

SendInit ==
    /\ ServerStart
    /\ srvHandler \in {"batch", "file"}
    /\ peerPc = [c \in Conns |-> IF c = 1 THEN "connect" ELSE "off"]
    /\ \E body \in SeqsUpTo(SendLines, MaxSendLines) :
          peerScript = [c \in Conns |-> IF c = 1 THEN body ELSE <<>>]
    /\ ClientOff

\* net.Dial
SmConnect(c) ==
    /\ peerPc[c] = "connect"
    /\ lnCliEnd' = [lnCliEnd EXCEPT ![c] = "open"]
    /\ peerPc' = [peerPc EXCEPT ![c] = "hello"]
    /\ UNCHANGED <<lnC2S, lnS2C, srvVars, peerScript, cliVars>>
    /\ UNCHANGED exceptLine

\* CreateConnection reads the CONNECTION_ID line
SmHello(c) ==
    /\ peerPc[c] = "hello"
    /\ ResponseReady(c)
    /\ LET r == WaitForResponse(c) IN
       /\ lnS2C' = [lnS2C EXCEPT ![c] = IF r.err THEN @ ELSE Tail(@)]
       /\ peerPc' = [peerPc EXCEPT ![c] = IF r.err THEN "done" ELSE "start"]
    /\ UNCHANGED <<lnC2S, lnCliEnd, srvVars, peerScript, cliVars>>
    /\ UNCHANGED exceptLine

\* StartStream: connection.SendMessage("START_STREAM:<jobId>:<streamId>")
SmStartStream(c) ==
    /\ peerPc[c] = "start"
    /\ CliWrite(c, GoodStartLine)
    /\ peerPc' = [peerPc EXCEPT ![c] = "startWait"]
    /\ UNCHANGED <<lnS2C, lnCliEnd, srvVars, peerScript, cliVars>>
    /\ UNCHANGED exceptLine

\* StartStream: WaitForResponse; an error for anything but START_STREAM_OK
SmStartAck(c) ==
    /\ peerPc[c] = "startWait"
    /\ ResponseReady(c)
    /\ LET r == WaitForResponse(c) IN
       /\ lnS2C' = [lnS2C EXCEPT ![c] = IF r.err THEN @ ELSE Tail(@)]
       /\ peerPc' = [peerPc EXCEPT ![c] =
                        IF ~r.err /\ StartAccepted(r.response)
                        THEN "send" ELSE "done"]
    /\ UNCHANGED <<lnC2S, lnCliEnd, srvVars, peerScript, cliVars>>
    /\ UNCHANGED exceptLine

\* Stream.SendMessage: connection.SendMessage(message) ...
SmSendMessage(c) ==
    /\ peerPc[c] = "send"
    /\ peerScript[c] # <<>>
    /\ CliWrite(c, Head(peerScript[c]))
    /\ peerScript' = [peerScript EXCEPT ![c] = Tail(@)]
    /\ peerPc' = [peerPc EXCEPT ![c] = "wait"]
    /\ UNCHANGED <<lnS2C, lnCliEnd, srvVars, cliVars>>
    /\ UNCHANGED exceptLine

\* ... then connection.WaitForResponse(): the read returns with a line, or
\* with an error once the server has closed; on the error the caller gives
\* up and closes the stream
SmResponse(c) ==
    /\ peerPc[c] = "wait"
    /\ ResponseReady(c)
    /\ LET r == WaitForResponse(c) IN
       IF r.err
       THEN /\ CloseStream(c)
            /\ peerPc' = [peerPc EXCEPT ![c] = "done"]
            /\ UNCHANGED lnS2C
       ELSE /\ lnS2C' = [lnS2C EXCEPT ![c] = Tail(@)]
            /\ peerPc' = [peerPc EXCEPT ![c] = "send"]
            /\ UNCHANGED <<lnC2S, lnCliEnd>>
    /\ UNCHANGED <<srvVars, peerScript, cliVars>>
    /\ UNCHANGED exceptLine

\* all requests answered: CloseStream
SmClose(c) ==
    /\ peerPc[c] = "send"
    /\ peerScript[c] = <<>>
    /\ CloseStream(c)
    /\ peerPc' = [peerPc EXCEPT ![c] = "done"]
    /\ UNCHANGED <<lnS2C, srvVars, peerScript, cliVars>>
    /\ UNCHANGED exceptLine

SendClientNext(c) ==
    \/ SmConnect(c) \/ SmHello(c) \/ SmStartStream(c) \/ SmStartAck(c)
    \/ SmSendMessage(c) \/ SmResponse(c) \/ SmClose(c)

SendNext == \E c \in Conns : ServerNext(c) \/ SendClientNext(c)

InitSend == SendInit /\ SplitIdle /\ DBIdle /\ CoordIdle /\ GrpcIdle
        /\ ChunkIdle
        /\ ConcIdle /\ ProtoIdle /\ StoreIdle /\ CrcIdle /\ BufIdle
        /\ CountIdle /\ ShutIdle /\ LogIdle /\ BatchIdle /\ MetaIdle
        /\ DestIdle

SpecSend == InitSend /\ [][SendNext]_vars

(***************************************************************************)
(* C24: every request a client sends with Stream.SendMessage is            *)
(* eventually answered: for every message the client can send and then     *)
(* wait on (BATCH:..., FILE:...), the server's OnMessage returns a         *)
(* non-empty response that handleConnection writes back, so the client's   *)
(* WaitForResponse never blocks forever while the connection is open.      *)
(***************************************************************************)
\* handleConnection passes a client request of connection c to OnMessage in
\* this step
HandlesRequest(c) ==
    /\ Len(srvMsgs'[c]) = Len(srvMsgs[c]) + 1
    /\ srvMsgs'[c][Len(srvMsgs'[c])] \in ClientRequests

C24_ResponseWritten(c) ==
    HandlesRequest(c) => Len(srvSent'[c]) = Len(srvSent[c]) + 1

\* the client waits for a response that cannot come: the server has taken
\* the request, written nothing and reads the connection for the next line
BlockedForever(c) ==
    /\ peerPc[c] = "wait"
    /\ lnS2C[c] = <<>>
    /\ lnC2S[c] = <<>>
    /\ srvPc[c] = "loop"

C24_EveryRequestAnswered ==
    /\ [](\A c \in Conns : ~BlockedForever(c))
    /\ [][\A c \in Conns : C24_ResponseWritten(c)]_vars

\* the client has sent a well-formed FILE: line as its first request and
\* waits; the server has handled it and written nothing since
\* START_STREAM_OK
C24_FileUnanswered ==
    /\ BlockedForever(1)
    /\ srvMsgs[1] = <<FileLineOk>>
    /\ Len(srvSent[1]) = 2

(***************************************************************************)
(* C25: BackupProcessor.Process terminates for every file list and every   *)
(* configured batch size: when each batch is acknowledged with BATCH_OK it *)
(* returns after sending exactly ceil(len(files)/batchSize) BATCH          *)
(* messages, including when the optional ClientHashQueryBatchSize key is   *)
(* absent from the config file.  So Process never panics, never sends more *)
(* BATCH messages than it has files, and when it returns nil it has sent   *)
(* ceil(len(files)/batchSize) of them.                                     *)
(***************************************************************************)
CeilDiv(n, d) == (n + d - 1) \div d

C25_After(c) ==
    /\ lnResult # "panic"
    /\ Len(cliReqs[c]) <= Len(lnFiles[c])
    /\ (cliErr[c] = "nil" /\ lnBatchSize >= 1) =>
          Len(cliReqs[c]) = CeilDiv(Len(lnFiles[c]), lnBatchSize)

C25_ProcessTerminates == \A c \in Conns : C25_After(c)

\* the config file has no ClientHashQueryBatchSize: stream 1 has one file,
\* its first BATCH: message (with no file name) was acknowledged with
\* BATCH_OK and Process has sent the same message again, still at index 0
C25_LoopsOnAbsentKey ==
    /\ lnBatchSize = ParseConfig(FALSE, 1).ClientHashQueryBatchSize
    /\ Len(lnFiles[1]) = 1
    /\ cliReqs[1] = <<BatchPrefix, BatchPrefix>>
    /\ cliAcks[1] = <<BatchOk>>
    /\ cliI[1] = 0

(***************************************************************************)
(* SpecGrpcBuf: one gRPC backup stream over a transport that holds a       *)
(* bounded number of messages in each direction: stream.Send waits while   *)
(* the buffer of its direction is full.  The stream's context has its      *)
(* timeout.                                                                *)
(***************************************************************************)
MaxBufFiles == 4        \* files in the list of the session
MaxBuf == 2             \* largest buffer of a direction, in messages

\* the paths ListRecursive found, every path once
BufPaths == <<"/p", "/q", "/r", "/s", "/t", "/u">>
BufFileList(n) ==
    [k \in 1..n |-> [Path |-> BufPaths[k], ModTime |-> 1, CTime |-> 1]]

GrpcBufInit ==
    /\ \E n \in 1..MaxBufFiles :
          gFiles = [s \in Conns |-> IF s = 1 THEN BufFileList(n) ELSE <<>>]
    /\ gStop \in BOOLEAN
    /\ gcPc = [s \in Conns |-> IF Len(gFiles[s]) > 0 THEN "open" ELSE "none"]
    /\ gcI = [s \in Conns |-> 0]
    /\ gcSent = [s \in Conns |-> 0]
    /\ gcRecv = [s \in Conns |-> 0]
    /\ gcErr = [s \in Conns |-> "none"]
    /\ gReq = [s \in Conns |-> <<>>]
    /\ gSendClosed = [s \in Conns |-> FALSE]
    /\ gResp = [s \in Conns |-> <<>>]
    /\ gsPc = [s \in Conns |-> "none"]
    /\ gsCur = [s \in Conns |-> <<>>]
    /\ gsExists = [s \in Conns |-> FALSE]
    /\ gsRet = [s \in Conns |-> "none"]
    /\ filesProcessed = 0
    /\ clientStreamID = 1
    /\ gAddCalls = {}
    /\ gRaced = {}
    /\ gHandled = {}
    /\ gsReqs = [s \in Conns |-> <<>>]
    /\ gCtx = [s \in Conns |-> "live"]
    /\ gReqBuf \in 1..MaxBuf
    /\ gRespBuf \in 1..MaxBuf

\* sendFilesMetadata is in stream.Send and the request buffer is full
SendBlocked(s) ==
    /\ gcPc[s] = "send"
    /\ gcI[s] < Len(gFiles[s])
    /\ ~Encode(gFiles[s][gcI[s] + 1]).err
    /\ ~SendFails(s)
    /\ Len(gReq[s]) >= gReqBuf

\* sendFilesMetadata, one turn of the loop, once stream.Send can go on
GbSend(s) == ~SendBlocked(s) /\ GcSend(s)

\* handleFileRequest after the FileExists query: AddFile when the file was
\* not found; the response is built and handed to stream.Send
GbAdd(s) ==
    /\ gsPc[s] = "decide"
    /\ LET fileInfo == gsCur[s][1] IN
       \E backupTime \in BackupTimes :
          LET add == AddNeeded(gsExists[s])
              res == IF add THEN WriterAddFile(dbRows, fileInfo, backupTime)
                     ELSE [rows |-> dbRows, err |-> FALSE]
          IN  /\ dbRows' = res.rows
              /\ gAddCalls' =
                    IF add
                    THEN gAddCalls \cup
                         {[file |-> fileInfo, exists |-> gsExists[s]]}
                    ELSE gAddCalls
              /\ IF res.err
                 THEN GsReturn(s, "err")
                 ELSE /\ gsPc' = [gsPc EXCEPT ![s] = "respond"]
                      /\ UNCHANGED gsRet
    /\ UNCHANGED <<gFiles, gStop, clientStreamID, gcPc, gcI, gcSent, gcRecv,
                   gcErr, gReq, gSendClosed, gResp, gsCur, gsExists,
                   filesProcessed, gRaced, gHandled, gsReqs, gCtx>>
    /\ UNCHANGED exceptGrpc

\* handleResponse is in stream.Send and the response buffer is full
RespondBlocked(s) ==
    /\ gsPc[s] = "respond"
    /\ ~ClientGone(s)
    /\ Len(gResp[s]) >= gRespBuf

\* handleResponse: stream.Send(response) once the buffer has room; it fails
\* when the client has gone
GbRespond(s) ==
    /\ gsPc[s] = "respond"
    /\ ~RespondBlocked(s)
    /\ IF ClientGone(s)
       THEN /\ GsReturn(s, "err")
            /\ UNCHANGED <<gResp, gHandled>>
       ELSE /\ gResp' = [gResp EXCEPT
                  ![s] = Append(@, FileResponse(clientStreamID, gsCur[s][1]))]
            /\ gHandled' = gHandled \cup {gsCur[s][1]}
            /\ gsPc' = [gsPc EXCEPT ![s] = "recv"]
            /\ UNCHANGED gsRet
    /\ UNCHANGED <<gFiles, gStop, clientStreamID, gcPc, gcI, gcSent, gcRecv,
                   gcErr, gReq, gSendClosed, gsCur, gsExists, filesProcessed,
                   gAddCalls, gRaced, gsReqs, gCtx, dbRows>>
    /\ UNCHANGED exceptGrpc

GrpcBufNext ==
    \E s \in Conns :
        \/ GcOpen(s) \/ GbSend(s) \/ GcCloseSend(s) \/ GcRecv(s)
        \/ GsRecv(s) \/ GsRecvEnd(s) \/ GbAdd(s) \/ GbRespond(s)
        \/ GcDeadline(s)

InitGrpcBuf == GrpcBufInit /\ DBIdle /\ SplitIdle /\ CoordIdle /\ LineIdle
        /\ ChunkIdle /\ ConcIdle /\ ProtoIdle /\ StoreIdle /\ CrcIdle
        /\ CountIdle /\ ShutIdle /\ LogIdle /\ BatchIdle /\ MetaIdle
        /\ DestIdle

SpecGrpcBuf == InitGrpcBuf /\ [][GrpcBufNext]_vars

(***************************************************************************)
(* C26: a gRPC stream session cannot deadlock: although processStream      *)
(* sends all file requests and closes its send side before it reads any    *)
(* response while the server answers each request as it arrives, for every *)
(* file-list length and every finite transport buffer size in each         *)
(* direction the session reaches the end of the response stream and        *)
(* processStream returns.  So the reader and the writer never both wait in *)
(* stream.Send, and while its context is live processStream returns only   *)
(* at the end of the response stream, with every file sent.                *)
(***************************************************************************)
\* the reader waits in Send for the writer to take a request, the writer
\* waits in Send for the reader to take a response
Deadlocked(s) == SendBlocked(s) /\ RespondBlocked(s)

\* a stream that was opened
C26_ReturnsAtEnd(s) ==
    (gcPc[s] = "done" /\ gsPc[s] # "none" /\ gCtx[s] = "live") =>
        /\ gcErr[s] = "nil"
        /\ gcSent[s] = Len(gFiles[s])
        /\ gcRecv[s] = Len(gFiles[s])

C26_NoDeadlock ==
    \A s \in Conns : ~Deadlocked(s) /\ C26_ReturnsAtEnd(s)

\* buffers of one message each way and four files: two responses wait for
\* the reader (one in the buffer, one in the writer's Send), the third
\* request is in the buffer and the reader waits in Send with the fourth
C26_BothInSend ==
    /\ gReqBuf = 1
    /\ gRespBuf = 1
    /\ Len(gFiles[1]) = 4
    /\ Deadlocked(1)
    /\ gcSent[1] = 3
    /\ gcRecv[1] = 0
    /\ gCtx[1] = "live"

(***************************************************************************)
(* C27: every read and write of the handler's streams map is performed     *)
(* while streamsMu is held, so no connection goroutine reads the map       *)
(* (OnMessage, OnConnectionEnd) while another goroutine is inserting or    *)
(* deleting an entry (OnConnectionStart, OnConnectionEnd): no read of the  *)
(* map ever runs together with a write of it.                              *)
(***************************************************************************)
C27_NoReadDuringWrite ==
    /\ []~srvFatal
    /\ [][\A c \in Conns : \A d \in Conns \ {c} :
             (ReadsStreams(c) /\ WritesStreams(d)) => ~srvFatal']_vars

\* connection 1 has started its stream and its BATCH line waits for
\* OnMessage, connection 2's START_STREAM line was being handled by
\* OnConnectionStart: the read of h.streams met the insert
C27_ReadMetInsert ==
    /\ srvFatal
    /\ srvStart[1] = "ok"
    /\ lnC2S[1] # <<>>
    /\ HasPrefix(Head(lnC2S[1]), BatchPrefix)
    /\ srvStart[2] = "none"
    /\ lnC2S[2] # <<>>
    /\ IsStartStream(Head(lnC2S[2]))

(***************************************************************************)
(* SpecCount: the single BackupStream that startServer registers serves    *)
(* two gRPC streams, each in its own goroutine.  Its fields logger and     *)
(* filesProcessed are shared by the goroutines and are read and written    *)
(* without synchronisation: the increment of filesProcessed is a read      *)
(* followed by a write.                                                    *)
(***************************************************************************)
MaxCountFiles == 2      \* file requests of one stream

\* peer.Addr.String() of the client of stream s
ClientAddr(s) == <<"client_addr", s>>

\* NewBackupStream: filesProcessed 0, the logger of the context; the
\* streams connect
CountInit ==
    /\ filesProcessed = 0
    /\ bsLogger = <<>>
    /\ bsLocal = [s \in Conns |-> 0]
    /\ bsPc = [s \in Conns |-> "connect"]
    /\ bsHandled = [s \in Conns |-> 0]
    /\ bsLogged = {}

grpcRest ==
    <<gFiles, gStop, gcPc, gcI, gcSent, gcRecv, gcErr, gReq, gSendClosed,
      gResp, gsPc, gsCur, gsExists, gsRet, clientStreamID, gAddCalls, gRaced,
      gHandled, gsReqs, gCtx, dbRows>>

\* s.logger = s.logger.With(client_addr, grpc_auth_type): the attributes
\* are added to those the logger has
With(logger, attr) == Append(logger, attr)

\* ProcessBackupStream, before the loop
BsConnect(s) ==
    /\ bsPc[s] = "connect"
    /\ bsLogger' = With(bsLogger, ClientAddr(s))
    /\ bsPc' = [bsPc EXCEPT ![s] = "recv"]
    /\ UNCHANGED <<filesProcessed, bsLocal, bsHandled, bsLogged, grpcRest>>
    /\ UNCHANGED exceptCount

\* handleFileRequest, s.filesProcessed++: the read
BsLoad(s) ==
    /\ bsPc[s] = "recv"
    /\ bsHandled[s] < MaxCountFiles
    /\ bsLocal' = [bsLocal EXCEPT ![s] = filesProcessed]
    /\ bsPc' = [bsPc EXCEPT ![s] = "store"]
    /\ UNCHANGED <<filesProcessed, bsLogger, bsHandled, bsLogged, grpcRest>>
    /\ UNCHANGED exceptCount

\* handleFileRequest, s.filesProcessed++: the write; then
\* logger := *s.logger and logger.Debug("Received filename", ...)
BsStore(s) ==
    /\ bsPc[s] = "store"
    /\ filesProcessed' = bsLocal[s] + 1
    /\ bsHandled' = [bsHandled EXCEPT ![s] = @ + 1]
    /\ bsLogged' = bsLogged \cup {[stream |-> s, attrs |-> bsLogger]}
    /\ bsPc' = [bsPc EXCEPT ![s] = "recv"]
    /\ UNCHANGED <<bsLogger, bsLocal, grpcRest>>
    /\ UNCHANGED exceptCount

\* ProcessBackupStream: stream.Recv() gives io.EOF, return nil
BsEnd(s) ==
    /\ bsPc[s] = "recv"
    /\ bsPc' = [bsPc EXCEPT ![s] = "done"]
    /\ UNCHANGED <<filesProcessed, bsLogger, bsLocal, bsHandled, bsLogged,
                   grpcRest>>
    /\ UNCHANGED exceptCount

CountNext ==
    \E s \in Conns : BsConnect(s) \/ BsLoad(s) \/ BsStore(s) \/ BsEnd(s)

InitCount == CountInit /\ SplitIdle /\ DBIdle /\ CoordIdle /\ LineIdle
        /\ GrpcIdle /\ ChunkIdle /\ ConcIdle /\ ProtoIdle /\ StoreIdle
        /\ CrcIdle /\ BufIdle /\ ShutIdle /\ LogIdle /\ BatchIdle /\ MetaIdle
        /\ DestIdle

SpecCount == InitCount /\ [][CountNext]_vars

(***************************************************************************)
(* C28: when several gRPC streams are served concurrently by the single    *)
(* registered BackupStream, its filesProcessed counter always equals the   *)
(* total number of file requests handled so far across all streams (no     *)
(* increment is lost under any interleaving), and the per-stream           *)
(* attributes added to its logger describe the stream that is logging.     *)
(***************************************************************************)
HandledTotal == bsHandled[1] + bsHandled[2]

C28_CounterExact == filesProcessed = HandledTotal

C28_LoggerOfStream ==
    \A r \in bsLogged : r.attrs = <<ClientAddr(r.stream)>>

C28_SharedFieldsSafe == C28_CounterExact /\ C28_LoggerOfStream

\* both streams have handled one file request, the counter says 1, and
\* stream 1 has logged with the client address of stream 2 in its logger
C28_LostIncrement ==
    /\ bsHandled = [s \in Conns |-> 1]
    /\ filesProcessed = 1
    /\ \E r \in bsLogged :
          /\ r.stream = 1
          /\ \E k \in 1..Len(r.attrs) : r.attrs[k] = ClientAddr(2)

(***************************************************************************)
(* C29: in every reachable server state, for each job id the               *)
(* JobState.ActiveStreams counter equals the number of entries currently   *)
(* in the streams map that belong to that job, i.e. the number of streams  *)
(* of that job that have started and not yet ended.                        *)
(***************************************************************************)
\* the entries of the streams map that belong to the job
StreamsOfJob(iobId) ==
    {id \in DOMAIN hStreams : hStreams[id].iobId = iobId}

C29_ActiveStreamsExact ==
    \A iobId \in DOMAIN hJobs :
        hJobs[iobId].ActiveStreams = Cardinality(StreamsOfJob(iobId))

\* both streams of the job have started and ended with CLOSE: the map is
\* empty and the job still counts two active streams
C29_CountsEndedStreams ==
    /\ \A c \in Conns : srvStart[c] = "ok" /\ srvEnded[c] = 1
    /\ ~srvFatal
    /\ hStreams = <<>>
    /\ \E iobId \in DOMAIN hJobs : hJobs[iobId].ActiveStreams = 2

(***************************************************************************)
(* C30: the effect of a per-file failure on the stream is decided by the   *)
(* StopStreamOnFileError switch: in sendFilesMetadata, when encoding or    *)
(* sending file k fails and the switch is off, every later file k+1.. of   *)
(* the list is still sent (the loop goes on to it) and the function        *)
(* returns no error; when the switch is on, no file after k is sent and    *)
(* the error is returned.                                                  *)
(***************************************************************************)
\* sendFilesMetadata of stream s is at a file whose Encode or Send fails
FileFails(s) ==
    /\ gcPc[s] = "send"
    /\ gcI[s] < Len(gFiles[s])
    /\ Encode(gFiles[s][gcI[s] + 1]).err \/ SendFails(s)

\* switch off: the loop skips the failed file and goes on; the function
\* ends only after the whole list, with CloseSend following (no error)
C30_SwitchOff(s) ==
    (~gStop /\ gcPc[s] = "send") =>
        /\ (FileFails(s) /\ gcI'[s] # gcI[s]) =>
              /\ gcI'[s] = gcI[s] + 1
              /\ gcSent'[s] = gcSent[s]
              /\ gcPc'[s] = "send"
              /\ gcErr'[s] = gcErr[s]
        /\ gcPc'[s] # "send" =>
              /\ gcPc'[s] = "recv"
              /\ gcI[s] = Len(gFiles[s])
              /\ gcErr'[s] = gcErr[s]

\* switch on: the function ends at the failed file with the error, and
\* nothing is sent after it
C30_SwitchOn(s) ==
    /\ (gStop /\ FileFails(s)) =>
          /\ gcI'[s] = gcI[s]
          /\ gcSent'[s] = gcSent[s]
          /\ gcPc'[s] # "send" => (gcPc'[s] = "done" /\ gcErr'[s] = "err")
    /\ gcPc[s] = "done" => (gcI'[s] = gcI[s] /\ gcSent'[s] = gcSent[s])

NewStreamFailed(c) == cliPc[c] = "done" /\ cliErr[c] = "start failed"

C31_FailedStartCloses ==
    \A c \in Conns : NewStreamFailed(c) => lnCliEnd[c] # "open"

\* the server refused the START_STREAM line of stream 1 (empty job id),
\* NewStream returned the error and the connection is still open
C31_LeftOpen ==
    /\ NewStreamFailed(1)
    /\ cliConnId[1] # 0
    /\ cliStartResp[1] = <<ErrEmptyIds>>
    /\ lnCliEnd[1] = "open"

(***************************************************************************)
(* C32: a rejected handshake leaves the handler's state unchanged: when    *)
(* OnConnectionStart returns an error, the streams map and the jobs map    *)
(* (including every ActiveStreams counter) are exactly as they were before *)
(* the call.                                                               *)
(***************************************************************************)
\* OnConnectionStart of connection c returns an error in this step
StartRejected(c) == srvPc[c] = "start" /\ srvStart'[c] = "err"

C32_RejectedStartFrame ==
    [][\A c \in Conns :
          StartRejected(c) => (hStreams' = hStreams /\ hJobs' = hJobs)]_vars

\* a START_STREAM line with an empty job id was refused and the handler
\* holds no stream and no job
C32_Witness ==
    /\ srvStart[1] = "err"
    /\ srvFirst[1] = << <<"START_STREAM", ":", ":", "1">> >>
    /\ srvSent[1][2] = ErrEmptyIds
    /\ hStreams = <<>>
    /\ hJobs = <<>>

(***************************************************************************)
(* SpecShut: the backup writer's main starts Server.Start in a goroutine,  *)
(* waits for a signal, calls Server.Shutdown and returns, which ends the   *)
(* process.  Clients dial, Start accepts them and every accepted           *)
(* connection is handled by its own goroutine.                             *)
(***************************************************************************)
exceptShut == <<splitVars, dbVars, coVars, lineVars, grpcVars, concVars,
        chunkVars, protoVars, storeVars, crcVars, bufVars, countVars, logVars,
        batchVars, metaVars, destVars>>

MaxExchanges == 2       \* messages one connection sends

\* NewServer; main: go server.Start(), <-stop
ShutInit ==
    /\ shCtx = "live"
    /\ shListener = "nil"
    /\ shStartPc = "listen"
    /\ shStartRet = "none"
    /\ shMainPc = "wait"
    /\ shConn = [c \in Conns |-> "none"]
    /\ shHandler = [c \in Conns |-> "none"]
    /\ shAnswered = [c \in Conns |-> 0]
    /\ shStartLog = "none"

\* the process is running
Alive == shMainPc # "exited"

\* listener.Close(): connections that were not accepted are dropped
Dropped(conn) == [c \in Conns |-> IF conn[c] = "dialed" THEN "refused"
                                  ELSE conn[c]]

\* Server.Shutdown run in one piece: s.cancel(); s.listener.Close() when a
\* listener exists
Shutdown(listener) == IF listener = "nil" THEN "nil" ELSE "closed"

\* Start: net.Listen, defer s.Shutdown()
StListen ==
    /\ Alive
    /\ shStartPc = "listen"
    /\ shListener' = "open"
    /\ shStartPc' = "check"
    /\ UNCHANGED <<shCtx, shStartRet, shMainPc, shConn, shHandler>>
    /\ UNCHANGED <<shAnswered, shStartLog, exceptShut>>

\* Start, top of the loop: select on s.ctx.Done(); return nil runs the
\* deferred Shutdown
StCheck ==
    /\ Alive
    /\ shStartPc = "check"
    /\ IF shCtx = "cancelled"
       THEN /\ shStartPc' = "returned"
            /\ shStartRet' = "nil"
            /\ shStartLog' = "Server stopping gracefully"
            /\ shListener' = Shutdown(shListener)
            /\ shConn' = Dropped(shConn)
       ELSE /\ shStartPc' = "accept"
            /\ UNCHANGED <<shStartRet, shStartLog, shListener, shConn>>
    /\ UNCHANGED <<shCtx, shMainPc, shHandler>>
    /\ UNCHANGED <<shAnswered, exceptShut>>

\* Start: s.listener.Accept() returns a connection; go s.handleConnection
StAccept(c) ==
    /\ Alive
    /\ shStartPc = "accept"
    /\ shListener = "open"
    /\ shConn[c] = "dialed"
    /\ shConn' = [shConn EXCEPT ![c] = "accepted"]
    /\ shHandler' = [shHandler EXCEPT ![c] = "scan"]
    /\ shStartPc' = "check"
    /\ UNCHANGED <<shCtx, shListener, shStartRet, shMainPc>>
    /\ UNCHANGED <<shAnswered, shStartLog, exceptShut>>

\* Start: Accept fails on the closed listener; return nil when the context
\* is done (deferred Shutdown), otherwise the loop goes on
StAcceptErr ==
    /\ Alive
    /\ shStartPc = "accept"
    /\ shListener = "closed"
    /\ IF shCtx = "cancelled"
       THEN /\ shStartPc' = "returned"
            /\ shStartRet' = "nil"
            /\ shStartLog' = "Server stopped during accept"
       ELSE /\ shStartPc' = "check"
            /\ shStartLog' = "Accept failed"
            /\ UNCHANGED shStartRet
    /\ UNCHANGED <<shCtx, shListener, shMainPc, shConn, shHandler>>
    /\ UNCHANGED <<shAnswered, exceptShut>>

\* a client dials the server
ShDial(c) ==
    /\ Alive
    /\ shConn[c] = "none"
    /\ shListener # "nil"
    /\ shConn' = [shConn EXCEPT
                     ![c] = IF shListener = "open" THEN "dialed" ELSE "refused"]
    /\ UNCHANGED <<shCtx, shListener, shStartPc, shStartRet, shMainPc,
                   shHandler>>
    /\ UNCHANGED <<shAnswered, shStartLog, exceptShut>>

\* handleConnection: scanner.Scan() gives a message, which goes to OnMessage
ShScan(c) ==
    /\ Alive
    /\ shHandler[c] = "scan"
    /\ shAnswered[c] < MaxExchanges
    /\ shHandler' = [shHandler EXCEPT ![c] = "exchange"]
    /\ UNCHANGED <<shCtx, shListener, shStartPc, shStartRet, shMainPc, shConn>>
    /\ UNCHANGED <<shAnswered, shStartLog, exceptShut>>

\* handleConnection: the response is written
ShRespond(c) ==
    /\ Alive
    /\ shHandler[c] = "exchange"
    /\ shHandler' = [shHandler EXCEPT ![c] = "scan"]
    /\ shAnswered' = [shAnswered EXCEPT ![c] = @ + 1]
    /\ UNCHANGED <<shCtx, shListener, shStartPc, shStartRet, shMainPc, shConn>>
    /\ UNCHANGED <<shStartLog, exceptShut>>

\* handleConnection: CLOSE or the end of the input; OnConnectionEnd, return
ShEnd(c) ==
    /\ Alive
    /\ shHandler[c] = "scan"
    /\ shHandler' = [shHandler EXCEPT ![c] = "ended"]
    /\ UNCHANGED <<shCtx, shListener, shStartPc, shStartRet, shMainPc, shConn>>
    /\ UNCHANGED <<shAnswered, shStartLog, exceptShut>>

\* main: the signal arrives
MainSignal ==
    /\ shMainPc = "wait"
    /\ shMainPc' = "cancel"
    /\ UNCHANGED <<shCtx, shListener, shStartPc, shStartRet, shConn, shHandler>>
    /\ UNCHANGED <<shAnswered, shStartLog, exceptShut>>

\* main, server.Shutdown(): s.cancel()
MainCancel ==
    /\ shMainPc = "cancel"
    /\ shCtx' = "cancelled"
    /\ shMainPc' = "close"
    /\ UNCHANGED <<shListener, shStartPc, shStartRet, shConn, shHandler>>
    /\ UNCHANGED <<shAnswered, shStartLog, exceptShut>>

\* main, server.Shutdown(): if s.listener != nil { s.listener.Close() }
MainClose ==
    /\ shMainPc = "close"
    /\ shListener' = Shutdown(shListener)
    /\ shConn' = IF shListener = "open" THEN Dropped(shConn) ELSE shConn
    /\ shMainPc' = "return"
    /\ UNCHANGED <<shCtx, shStartPc, shStartRet, shHandler>>
    /\ UNCHANGED <<shAnswered, shStartLog, exceptShut>>

\* main returns: the process ends with its goroutines; a handler that was
\* between a message and its response is cut off
Exit(h) ==
    IF h = "exchange" THEN "cut" ELSE IF h = "scan" THEN "killed" ELSE h

MainExit ==
    /\ shMainPc = "return"
    /\ shMainPc' = "exited"
    /\ shHandler' = [c \in Conns |-> Exit(shHandler[c])]
    /\ shStartPc' = IF shStartPc = "returned" THEN "returned" ELSE "killed"
    /\ UNCHANGED <<shCtx, shListener, shStartRet, shConn>>
    /\ UNCHANGED <<shAnswered, shStartLog, exceptShut>>

ShutNext ==
    \/ StListen \/ StCheck \/ StAcceptErr
    \/ MainSignal \/ MainCancel \/ MainClose \/ MainExit
    \/ \E c \in Conns :
          StAccept(c) \/ ShDial(c) \/ ShScan(c) \/ ShRespond(c) \/ ShEnd(c)

InitShut == ShutInit /\ SplitIdle /\ DBIdle /\ CoordIdle /\ LineIdle
        /\ GrpcIdle /\ ChunkIdle /\ ConcIdle /\ ProtoIdle /\ StoreIdle
        /\ CrcIdle /\ BufIdle /\ CountIdle /\ LogIdle /\ BatchIdle /\ MetaIdle
        /\ DestIdle

SpecShut == InitShut /\ [][ShutNext]_vars

(***************************************************************************)
(* C33: after Shutdown is called the server accepts no further connection  *)
(* and Server.Start eventually returns nil; connections already being      *)
(* handled are not interrupted by Shutdown and finish their in-flight      *)
(* exchange.  So once main's Shutdown has run no connection is accepted,   *)
(* Start is not left waiting in Accept on an open listener and returns     *)
(* nothing but nil, and no handler is stopped between a message and its    *)
(* response.                                                               *)
(***************************************************************************)
\* main's call of Shutdown has returned
ShutdownDone == shMainPc \in {"return", "exited"}

C33_NoAcceptAfter ==
    ShutdownDone => \A c \in Conns : shConn[c] = "accepted" => shConn'[c] = shConn[c]

C33_StartReturns ==
    /\ shStartRet \in {"none", "nil"}
    /\ ShutdownDone => ~(shStartPc = "accept" /\ shListener = "open")
    /\ shStartPc = "returned" => (shStartRet = "nil" /\ shCtx = "cancelled")

C33_ExchangesFinish == \A c \in Conns : shHandler[c] # "cut"

C33_GracefulShutdown ==
    /\ [](C33_StartReturns /\ C33_ExchangesFinish)
    /\ [][C33_NoAcceptAfter]_vars

\* Shutdown has run, Start has returned nil, main has returned, and the
\* handler of connection 1 was stopped with a message read and no response
\* written
C33_ExchangeCut ==
    /\ shMainPc = "exited"
    /\ shStartPc = "returned"
    /\ shStartRet = "nil"
    /\ shConn[1] = "accepted"
    /\ shHandler[1] = "cut"

(***************************************************************************)
(* SpecLog: two processes of one application log into the same folder on   *)
(* the same day, each into its own appName-date.PID.log, and consolidate   *)
(* on Logger.Close.  A file name is the sequence of its dot and dash       *)
(* separated parts.                                                        *)
(***************************************************************************)
MaxLogLines == 2        \* lines one process logs

exceptLog == <<splitVars, dbVars, coVars, lineVars, grpcVars, concVars,
        chunkVars, protoVars, storeVars, crcVars, bufVars, countVars,
        shutVars, batchVars, metaVars, destVars>>

\* fmt.Sprintf("%s-%s.%d.log", appName, timestamp, pid)
LogFileName(pid) == <<"app", "2006-01-02", pid, "log">>

\* appName-timestamp.PID.log -> appName-timestamp.log, "" (here <<>>) when
\* the name does not end with .PID.log
generateTargetFileName(currentFileName, pid) ==
    LET n == Len(currentFileName) IN
    IF n = 0 \/ currentFileName[n] # "log" THEN <<>>
    ELSE IF n < 2 \/ currentFileName[n - 1] # pid THEN <<>>
    ELSE SubSeq(currentFileName, 1, n - 2) \o <<"log">>

TargetLogName == generateTargetFileName(LogFileName(1), 1)

LogNames == {LogFileName(p) : p \in Pids} \cup {TargetLogName}

\* the folder before either process starts: the consolidated file of the
\* day is there, left by an earlier run, or it is not
LogInit ==
    /\ \E earlier \in BOOLEAN :
        /\ lgExists = IF earlier THEN {TargetLogName} ELSE {}
        /\ lgContent = [f \in LogNames |->
                IF earlier /\ f = TargetLogName THEN <<<<0, 1>>>> ELSE <<>>]
    /\ lgPc = [p \in Pids |-> "none"]
    /\ lgPath = [p \in Pids |-> <<>>]
    /\ lgWritten = [p \in Pids |-> <<>>]

\* os.OpenFile(logFilePath, O_CREATE|O_WRONLY|O_APPEND)
NewLogger(p) ==
    /\ lgPc[p] = "none"
    /\ lgPc' = [lgPc EXCEPT ![p] = "open"]
    /\ lgPath' = [lgPath EXCEPT ![p] = <<LogFileName(p)>>]
    /\ lgExists' = lgExists \cup {LogFileName(p)}
    /\ UNCHANGED <<lgContent, lgWritten>>
    /\ UNCHANGED exceptLog

\* Info, Debug, Error: one line through the file opened for append
Info(p) ==
    /\ lgPc[p] = "open"
    /\ Len(lgWritten[p]) < MaxLogLines
    /\ LET line == <<p, Len(lgWritten[p]) + 1>> IN
        /\ lgContent' = [lgContent EXCEPT ![lgPath[p][1]] = Append(@, line)]
        /\ lgWritten' = [lgWritten EXCEPT ![p] = Append(@, line)]
    /\ UNCHANGED <<lgExists, lgPc, lgPath>>
    /\ UNCHANGED exceptLog

\* Close: l.logFile.Close(), the target path is computed
CloseFile(p) ==
    /\ lgPc[p] = "open"
    /\ LET targetFileName == generateTargetFileName(lgPath[p][1], p) IN
        IF targetFileName = <<>>
        THEN /\ lgPc' = [lgPc EXCEPT ![p] = "done"]
             /\ UNCHANGED lgPath
        ELSE /\ lgPc' = [lgPc EXCEPT ![p] = "stat"]
             /\ lgPath' = [lgPath EXCEPT ![p] = <<@[1], targetFileName>>]
    /\ UNCHANGED <<lgExists, lgContent, lgWritten>>
    /\ UNCHANGED exceptLog

\* Close: os.Stat(targetLogPath) chooses between append and rename
CloseStat(p) ==
    /\ lgPc[p] = "stat"
    /\ lgPc' = [lgPc EXCEPT ![p] =
            IF lgPath[p][2] \in lgExists THEN "append" ELSE "rename"]
    /\ UNCHANGED <<lgExists, lgContent, lgPath, lgWritten>>
    /\ UNCHANGED exceptLog

\* appendLogFile: io.Copy of the source into the target opened with
\* O_WRONLY|O_APPEND, no O_CREATE
appendLogFile(p) ==
    /\ lgPc[p] = "append"
    /\ LET sourceFile == lgPath[p][1]
           targetFile == lgPath[p][2] IN
        IF sourceFile \in lgExists /\ targetFile \in lgExists
        THEN /\ lgContent' = [lgContent EXCEPT
                    ![targetFile] = @ \o lgContent[sourceFile]]
             /\ lgPc' = [lgPc EXCEPT ![p] = "remove"]
        ELSE /\ lgPc' = [lgPc EXCEPT ![p] = "done"]
             /\ UNCHANGED lgContent
    /\ UNCHANGED <<lgExists, lgPath, lgWritten>>
    /\ UNCHANGED exceptLog

\* Close: os.Remove(currentLogPath) after the append
CloseRemove(p) ==
    /\ lgPc[p] = "remove"
    /\ lgExists' = lgExists \ {lgPath[p][1]}
    /\ lgContent' = [lgContent EXCEPT ![lgPath[p][1]] = <<>>]
    /\ lgPc' = [lgPc EXCEPT ![p] = "done"]
    /\ UNCHANGED <<lgPath, lgWritten>>
    /\ UNCHANGED exceptLog

\* Close: os.Rename(currentLogPath, targetLogPath); rename replaces a
\* target that has appeared since the Stat
CloseRename(p) ==
    /\ lgPc[p] = "rename"
    /\ LET currentLogPath == lgPath[p][1]
           targetLogPath == lgPath[p][2] IN
        /\ lgExists' = (lgExists \ {currentLogPath}) \cup {targetLogPath}
        /\ lgContent' = [lgContent EXCEPT
                ![targetLogPath] = lgContent[currentLogPath],
                ![currentLogPath] = <<>>]
    /\ lgPc' = [lgPc EXCEPT ![p] = "done"]
    /\ UNCHANGED <<lgPath, lgWritten>>
    /\ UNCHANGED exceptLog

LogNext ==
    \E p \in Pids :
        \/ NewLogger(p)
        \/ Info(p)
        \/ CloseFile(p)
        \/ CloseStat(p)
        \/ appendLogFile(p)
        \/ CloseRemove(p)
        \/ CloseRename(p)

InitLog == LogInit /\ SplitIdle /\ DBIdle /\ CoordIdle /\ LineIdle
        /\ GrpcIdle /\ ConcIdle /\ ChunkIdle /\ ProtoIdle /\ StoreIdle
        /\ CrcIdle /\ BufIdle /\ CountIdle /\ ShutIdle /\ BatchIdle /\ MetaIdle
        /\ DestIdle

SpecLog == InitLog /\ [][LogNext]_vars

\* the lines of a file
LinesOf(f) == {lgContent[f][i] : i \in 1..Len(lgContent[f])}

\* both processes have returned from Close
BothClosed == \A p \in Pids : lgPc[p] = "done"

\* C34: under every interleaving of two processes closing their PID log
\* files of the same day, the consolidated appName-date.log holds every
\* line of both PID files and both PID files are removed
C34_ConsolidationSafe ==
    BothClosed =>
        \A p \in Pids :
            /\ LogFileName(p) \notin lgExists
            /\ \A i \in 1..Len(lgWritten[p]) :
                lgWritten[p][i] \in LinesOf(TargetLogName)

\* both processes renamed: the second rename replaced the first one's lines
C34_LinesLost ==
    /\ BothClosed
    /\ \E p \in Pids :
        /\ lgWritten[p] # <<>>
        /\ \A i \in 1..Len(lgWritten[p]) :
            lgWritten[p][i] \notin LinesOf(TargetLogName)

(***************************************************************************)
(* SpecBatch: one BATCH message.  The reader joins the names of a batch,   *)
(* the writer's connection handler trims the line and OnMessage splits     *)
(* the payload.  A name is a sequence of characters.                       *)
(***************************************************************************)
MaxNameLen == 2         \* characters of a file name
MaxBatchNames == 2      \* names of one batch

exceptBatch == <<splitVars, dbVars, coVars, lineVars, grpcVars, concVars,
        chunkVars, protoVars, storeVars, crcVars, bufVars, countVars,
        shutVars, logVars, metaVars, destVars>>

\* the characters of a file name: a letter, the separator, a blank
NameChars == {"a", ",", " "}

NamesUpTo(n) == UNION {[1..k -> NameChars] : k \in 0..n}

BatchesUpTo(n) == UNION {[1..k -> NamesUpTo(MaxNameLen)] : k \in 0..n}

\* fmt.Sprintf("BATCH:%s", strings.Join(filenames, ","))
BatchMessage(filenames) == BatchPrefix \o Join(filenames, ",")

\* fileList := message[6:]; filenames := strings.Split(fileList, ",")
BatchFilenames(message) == Split(Slice(message, 2, Len(message)), ",")

\* batch := b.files[i:end], empty when the batch size is 0
BatchInit ==
    /\ btNames \in BatchesUpTo(MaxBatchNames)
    /\ btMessage = <<>>
    /\ btFilenames = <<>>
    /\ btPc = "client"

\* Process: the message is built and written as one line
BtSend ==
    /\ btPc = "client"
    /\ btMessage' = BatchMessage(btNames)
    /\ btPc' = "sent"
    /\ UNCHANGED <<btNames, btFilenames>>
    /\ UNCHANGED exceptBatch

\* handleConnection: message := strings.TrimSpace(scanner.Text()), then
\* OnMessage
BtOnMessage ==
    /\ btPc = "sent"
    /\ LET message == TrimSpace(btMessage) IN
        /\ HasPrefix(message, BatchPrefix)
        /\ btFilenames' = BatchFilenames(message)
    /\ btPc' = "handled"
    /\ UNCHANGED <<btNames, btMessage>>
    /\ UNCHANGED exceptBatch

BatchNext == BtSend \/ BtOnMessage

InitBatch == BatchInit /\ SplitIdle /\ DBIdle /\ CoordIdle /\ LineIdle
        /\ GrpcIdle /\ ConcIdle /\ ChunkIdle /\ ProtoIdle /\ StoreIdle
        /\ CrcIdle /\ BufIdle /\ CountIdle /\ ShutIdle /\ LogIdle /\ MetaIdle
        /\ DestIdle

SpecBatch == InitBatch /\ [][BatchNext]_vars

\* C35: the names the server obtains by splitting the payload on ','
\* equal the names the client put into the message, for every file name
\* and for the empty batch
C35_BatchRoundTrip == btPc = "handled" => btFilenames = btNames

\* a name with a ',' arrives as two names
C35_CommaSplitsName ==
    /\ btPc = "handled"
    /\ btNames = <<<<",", "a">>>>
    /\ btFilenames = <<<<>>, <<"a">>>>

(***************************************************************************)
(* SpecMeta: one FILE metadata message.  SendFileMetadata formats the      *)
(* FileInfo of the sender, ParseFileMetadata reads the message; a message  *)
(* may also come from a peer that formats it otherwise.  A time is its     *)
(* seconds and nanoseconds; a path is a sequence of characters.            *)
(***************************************************************************)
MaxPathLen == 2         \* characters of a path

exceptMeta == <<splitVars, dbVars, coVars, lineVars, grpcVars, concVars,
        chunkVars, protoVars, storeVars, crcVars, bufVars, countVars,
        shutVars, logVars, batchVars, destVars>>

\* the type codes of fileTypeLookup
FileTypes == {"f", "d", "?"}

\* time.Unix(sec, nsec)
Time(sec, nsec) == [sec |-> sec, nsec |-> nsec]

\* Time.Unix()
Unix(t) == t.sec

PathChars == {"a", ";"}
PathsUpTo(n) == UNION {[1..k -> PathChars] : k \in 0..n}

\* what getFileInfoFast can return
MetaFileInfos ==
    [FileType : FileTypes, Size : {0, 7, 10}, Mode : {0, 420},
     Owner : {0, 10}, Group : {0},
     ModTime : {Time(sec, nsec) : sec \in {0 - 1, 0, 12}, nsec \in {0, 1}},
     AccessTime : {Time(0, 0), Time(3, 0)},
     ChangeTime : {Time(0, 0), Time(12, 0)},
     Path : PathsUpTo(MaxPathLen)]

\* the fields of "%c;%d;%d;%d;%d;%d;%d;%d;%s"
MetadataFields(file) ==
    <<<<file.FileType>>, Itoa(file.Size), Itoa(file.Mode), Itoa(file.Owner),
      Itoa(file.Group), Itoa(Unix(file.ModTime)),
      Itoa(Unix(file.AccessTime)), Itoa(Unix(file.ChangeTime)), file.Path>>

\* SendFileMetadata: message := fmt.Sprintf("FILE:%c;%d;...;%s", ...)
FileMetadataMessage(file) == FilePrefix \o Join(MetadataFields(file), ";")

\* messages of a peer that is not SendFileMetadata: the prefix is missing,
\* or fields are
SampleFile ==
    [FileType |-> "f", Size |-> 7, Mode |-> 420, Owner |-> 10, Group |-> 0,
     ModTime |-> Time(12, 0), AccessTime |-> Time(3, 0),
     ChangeTime |-> Time(12, 0), Path |-> <<"a">>]
OtherMessages ==
    {FilePrefix \o Join(SubSeq(MetadataFields(SampleFile), 1, k), ";") :
        k \in 0..FileFields}
    \cup {Join(SubSeq(MetadataFields(SampleFile), 1, k), ";") :
        k \in 1..FileFields}
    \cup {BatchLineA}

MetaInit ==
    /\ mdResult = <<>>
    /\ \/ /\ mdFile \in MetaFileInfos
          /\ mdMessage = <<>>
          /\ mdPc = "client"
       \/ /\ mdFile = <<>>
          /\ mdMessage \in OtherMessages
          /\ mdPc = "sent"

\* SendFileMetadata builds the message and sends it
MdSend ==
    /\ mdPc = "client"
    /\ mdMessage' = FileMetadataMessage(mdFile)
    /\ mdPc' = "sent"
    /\ UNCHANGED <<mdFile, mdResult>>
    /\ UNCHANGED exceptMeta

\* the receiver calls ParseFileMetadata(message)
MdParse ==
    /\ mdPc = "sent"
    /\ mdResult' = ParseFileMetadata(mdMessage)
    /\ mdPc' = "parsed"
    /\ UNCHANGED <<mdFile, mdMessage>>
    /\ UNCHANGED exceptMeta

MetaNext == MdSend \/ MdParse

InitMeta == MetaInit /\ SplitIdle /\ DBIdle /\ CoordIdle /\ LineIdle
        /\ GrpcIdle /\ ConcIdle /\ ChunkIdle /\ ProtoIdle /\ StoreIdle
        /\ CrcIdle /\ BufIdle /\ CountIdle /\ ShutIdle /\ LogIdle /\ BatchIdle
        /\ DestIdle

SpecMeta == InitMeta /\ [][MetaNext]_vars

\* every time of the FileInfo has whole-second precision
WholeSeconds(file) ==
    /\ file.ModTime.nsec = 0
    /\ file.AccessTime.nsec = 0
    /\ file.ChangeTime.nsec = 0

\* the ';'-separated fields of the payload of a FILE: message
FieldCount(message) ==
    1 + Cardinality({k \in (Len(FilePrefix) + 1)..Len(message) :
                        message[k] = ";"})

\* the parsed FileInfo has the fields of the sender's; its times are
\* time.Unix(seconds, 0)
SameFileInfo(parsed, file) ==
    /\ parsed.FileType = file.FileType
    /\ parsed.Size = file.Size
    /\ parsed.Mode = file.Mode
    /\ parsed.Owner = file.Owner
    /\ parsed.Group = file.Group
    /\ Time(parsed.ModTime, 0) = file.ModTime
    /\ Time(parsed.AccessTime, 0) = file.AccessTime
    /\ Time(parsed.ChangeTime, 0) = file.ChangeTime
    /\ parsed.Path = file.Path

\* C36: ParseFileMetadata applied to the message SendFileMetadata builds
\* from a FileInfo with whole-second times returns the same type, size,
\* mode, owner, group, times and path, also for a path with ';'; a message
\* without the FILE: prefix or with fewer than 9 fields yields an error and
\* no FileInfo
C36_MetadataRoundTrip ==
    mdPc = "parsed" =>
        /\ (mdFile # <<>> /\ WholeSeconds(mdFile)) =>
                /\ ~mdResult.err
                /\ SameFileInfo(mdResult.file, mdFile)
        /\ (\/ ~HasPrefix(mdMessage, FilePrefix)
            \/ FieldCount(mdMessage) < FileFields) =>
                /\ mdResult.err
                /\ mdResult.file = <<>>

\* a path with two ';' has come back whole
C36_Witness ==
    /\ mdPc = "parsed"
    /\ mdFile # <<>>
    /\ WholeSeconds(mdFile)
    /\ mdFile.Path = <<";", ";">>
    /\ ~mdResult.err
    /\ mdResult.file.Path = <<";", ";">>

(***************************************************************************)
(* SpecDest: the reader parses its --destination flag, "host:port" or      *)
(* "port".  A destination is a sequence of characters.                     *)
(***************************************************************************)
exceptDest == <<splitVars, dbVars, coVars, lineVars, grpcVars, concVars,
        chunkVars, protoVars, storeVars, crcVars, bufVars, countVars,
        shutVars, logVars, batchVars, metaVars>>

\* config.DefaultPort, here the default_port of one configuration file,
\* and the default host of ParseArguments
DefaultPort == 8080
DefaultHost == <<"localhost">>

\* the port numbers a destination is written with
PortSamples == {0, 1, 80, 1023, 1024, 1025, 8080, 65535, 65536, 70000}

\* the texts in the place of a port: numbers, signed numbers, no number
PortTexts ==
    {Itoa(n) : n \in PortSamples}
    \cup {<<>>, <<"x">>, <<"-", "1">>, <<"+", "8", "0">>}

HostTexts == {<<>>, <<"h">>, <<"h", "2">>}

\* "port", "host:port" and a destination with two ':'
Destinations ==
    PortTexts
    \cup {h \o <<":">> \o t : h \in HostTexts, t \in PortTexts}
    \cup {<<"h", ":", "8", "0", ":", "1">>, <<":", ":">>}

\* ValidatePort: the error when port < 1024 || port > 65535
ValidatePort(port) == port < 1024 \/ port > 65535

\* ParseDestination(dest, defaultHost, defaultPort)
ParseDestination(dest, defaultHost, defaultPort) ==
    LET failed == [host |-> <<>>, port |-> 0, err |-> TRUE]
        parts == Split(dest, ":")
    IN
    IF dest = <<>>
    THEN [host |-> defaultHost, port |-> defaultPort, err |-> FALSE]
    ELSE IF Len(parts) = 1
    THEN IF Atoi(parts[1]).err THEN failed
         ELSE [host |-> defaultHost, port |-> Atoi(parts[1]).val,
               err |-> FALSE]
    ELSE IF Len(parts) = 2
    THEN IF Atoi(parts[2]).err THEN failed
         ELSE IF ValidatePort(Atoi(parts[2]).val) THEN failed
         ELSE [host |-> IF parts[1] = <<>> THEN defaultHost ELSE parts[1],
               port |-> Atoi(parts[2]).val, err |-> FALSE]
    ELSE failed

\* cmd.Execute() has read the flags
DestInit ==
    /\ pdDest \in Destinations
    /\ pdResult = <<>>
    /\ pdArguments = <<>>
    /\ pdPc = "flags"

\* ParseArguments: host, port, err := common.ParseDestination(...)
PdParse ==
    /\ pdPc = "flags"
    /\ pdResult' = ParseDestination(pdDest, DefaultHost, DefaultPort)
    /\ pdPc' = "parsed"
    /\ UNCHANGED <<pdDest, pdArguments>>
    /\ UNCHANGED exceptDest

\* ParseArguments: the error, or the Arguments with WriterHost, WriterPort
PdReturn ==
    /\ pdPc = "parsed"
    /\ pdArguments' =
        IF pdResult.err THEN [err |-> TRUE]
        ELSE [err |-> FALSE, WriterHost |-> pdResult.host,
              WriterPort |-> pdResult.port]
    /\ pdPc' = "returned"
    /\ UNCHANGED <<pdDest, pdResult>>
    /\ UNCHANGED exceptDest

DestNext == PdParse \/ PdReturn

InitDest == DestInit /\ SplitIdle /\ DBIdle /\ CoordIdle /\ LineIdle
        /\ GrpcIdle /\ ConcIdle /\ ChunkIdle /\ ProtoIdle /\ StoreIdle
        /\ CrcIdle /\ BufIdle /\ CountIdle /\ ShutIdle /\ LogIdle /\ BatchIdle /\ MetaIdle

SpecDest == InitDest /\ [][DestNext]_vars

\* C37: a non-empty destination that ParseDestination takes without error
\* gives a port in 1024..65535, in the host:port form and in the port form
C37_PortInRange ==
    (pdPc # "flags" /\ pdDest # <<>> /\ ~pdResult.err) =>
        pdResult.port \in 1024..65535

\* the bare port 80 is taken as it is
C37_BarePortUnchecked ==
    /\ pdPc = "returned"
    /\ pdDest = <<"8", "0">>
    /\ ~pdArguments.err
    /\ pdArguments.WriterPort = 80

====
